---- MODULE Spec2Model ----
\* Fleet orchestration of pulumi_k3s: src/__main__.py (driver, provision_vm),
\* src/scripts/ssh.py (SSHClient), src/scripts/provision.py (VMProvisioner),
\* src/proxmox/vm.py (ProxmoxVM), src/scripts/ansible.py (AnsibleManager).
EXTENDS Integers, Sequences, FiniteSets, TLC

\* ---------------------------------------------------------------- bounds
MaxMasters == 2
MaxWorkers == 1
\* the largest retry_attempts handed to SSHClient.connect
MaxAttempts == 3
\* addresses are NumOctets digits of base OctetSize (IPv4: 4 octets of 256)
OctetSize == 4
NumOctets == 2
\* the largest start_ip_offset drawn
MaxOffset == 3
\* the fleets whose declaration is followed have up to MaxMasters + 1 masters
\* and MaxWorkers + 1 workers; at most MaxCreateFailures creations raise
MaxCreateFailures == 1
\* the platform-ID ranges drawn start at FirstId and hold up to MaxSpan + 1 IDs
FirstId == 100
MaxSpan == 3
\* the direct calls of _configure_swap that are followed on one machine
MaxSwapCalls == 2

\* ------------------------------------------------------ program constants
\* __main__.py:349  max_retries = 15
max_retries == 15
\* __main__.py:369  retry_count >= 3
SwitchThreshold == 3
\* __main__.py:413  max_provisioning_retries = 3
max_provisioning_retries == 3
\* __main__.py:602  max_retries = 3 (playbook loop)
max_playbook_retries == 3

None == "None"

VARIABLES
    master_count,      \* k3s_cluster_config["master_count"]
    worker_count,      \* k3s_cluster_config["worker_count"]
    vm_base_config,    \* the keys of vm_base_config that provision_vm reads
    start_on_create,   \* vm_base_config.get("start_on_create", True)
    ip_address,        \* per machine: the Output vm.ip_address
    has_agent,         \* per machine: ProxmoxVM._has_agent
    power_result,      \* the last power_operation call and the verb it yielded
    pc,                \* position of the driver
    cur,               \* loop index i of on_ips_available (over all_vms)
    ppc,               \* position inside provision_vm
    ssh_client,        \* provision_vm's ssh_client: username and client handle
    retry_count,       \* provision_vm's retry_count (both loops reuse it)
    connected,         \* provision_vm's connected
    tried_admin_user,  \* provision_vm's tried_admin_user
    success,           \* provision_vm's success
    connect_log,       \* history: username of every ssh_client.connect() call of this provision_vm call
    connect_raised,    \* history: some connect() of this provision_vm call raised
    switch_count,      \* history: identity switches of this provision_vm call
    provisioned,       \* history: per machine, how its provision_vm call ended
    bootstrap_calls,   \* history: calls of clone_repository, generate_inventory, run_playbook
    playbook_retry,    \* on_ips_available's retry_count of the playbook loop
    last_attempt,      \* history: exit codes, result and steps issued of the last provision() call
    provision_log,     \* history: result and channel (its user) of every provision() call of this provision_vm call
    agent_cmds_ok,     \* history: per machine, some attempt ran the agent commands with exit code 0
    dropped_channels,  \* history: the channels provision_vm no longer refers to (machine, handle as it left it)
    chan_call,         \* the last call made on an SSHClient used on its own, and what it gave
    repo,              \* the working copy at AnsibleManager.local_path
    hosts_ini,         \* inventory/my-cluster/hosts.ini, as lines
    all_yml,           \* inventory/my-cluster/group_vars/all.yml, as key -> value
    ans_call,          \* the last call made on an AnsibleManager used on its own, and what it gave
    vm_id_range,       \* vm_base_config "vm_id_min" and "vm_id_max", when both are set
    vm_ids,            \* the module's vm_ids
    master_vms,        \* the module's master_vms: the machines declared, in order
    worker_vms,        \* the module's worker_vms
    last_vm,           \* the module's last_vm: fleet position of the machine declared last, 0 for None
    decl_pc,           \* position of the module-level code
    decl_i,            \* the index i of the creation loop that is running
    create_failed,     \* history: fleet positions whose create_vm_with_deps raised
    exports,           \* what pulumi.export was called with
    creation,          \* per fleet position, how far the hypervisor is with creating the machine
    guest,             \* the machine a VMProvisioner works on: account, swap, files, firewall
    guest_log          \* history: the calls made on that VMProvisioner and the commands they issued

vars == << master_count, worker_count, vm_base_config, start_on_create, ip_address,
           has_agent, power_result, pc, cur, ppc, ssh_client, retry_count, connected,
           tried_admin_user, success, connect_log, connect_raised, switch_count,
           provisioned, bootstrap_calls, playbook_retry, last_attempt,
           provision_log, agent_cmds_ok, dropped_channels, chan_call, repo,
           hosts_ini, all_yml, ans_call, vm_id_range, vm_ids, master_vms,
           worker_vms, last_vm, decl_pc, decl_i, create_failed, exports, creation,
           guest, guest_log >>

cfgVars == << master_count, worker_count, vm_base_config, start_on_create >>
provLocals == << ssh_client, retry_count, connected, tried_admin_user, success,
                 connect_log, connect_raised, switch_count, last_attempt,
                 provision_log >>
histVars == << agent_cmds_ok, dropped_channels >>
libVars == << chan_call, repo, hosts_ini, all_yml, ans_call >>
declVars == << vm_id_range, vm_ids, master_vms, worker_vms, last_vm, decl_pc, decl_i,
               create_failed, exports, creation >>
guestVars == << guest, guest_log >>

\* ------------------------------------------------------------ the fleet
\* all_vms = master_vms + worker_vms (__main__.py:462)
NumVms == master_count + worker_count
all_vms == 1 .. NumVms
IsMaster(m) == m <= master_count

\* The configurations drawn: create_admin_user, admin_username and whether a
\* password or a key is supplied for the administrative user.
VmBaseConfigs ==
    { c \in [ create_admin_user : BOOLEAN, admin_username : {None, "admin"},
              admin_credential : BOOLEAN ] :
        (~(c.create_admin_user /\ c.admin_username # None)) => c.admin_credential }

\* mutant: the create_admin_user flag is not consulted
UsingAdminUserNoFlag(cfg) == cfg.admin_username # None

\* __main__.py:336  using_admin_user
UsingAdminUser(cfg) == cfg.create_admin_user /\ cfg.admin_username # None

NoPowerCall == [ via |-> None, vm |-> 0, op |-> None, has_agent |-> FALSE,
                 vm_state |-> None, verb |-> None ]
NoClient == [ username |-> None, client |-> None ]
NoBootstrap == [ s \in {"clone", "inventory", "playbook"} |-> 0 ]

\* ------------------------------------------------- ProxmoxVM (proxmox/vm.py)
VMPowerOp == {"start", "stop", "shutdown", "reset", "reboot"}
VmStates == {"running", "stopped"}

\* mutant: the graceful verbs are passed on whatever the flag says
DowngradeNever(agent, op) == op

\* vm.py:270-276  the downgrade of the graceful verbs without the agent
Downgrade(agent, op) ==
    IF ~agent
    THEN (IF op = "shutdown" THEN "stop" ELSE IF op = "reboot" THEN "reset" ELSE op)
    ELSE op

\* mutant: the observed run state is not consulted
StateAwareBlind(op, vm_state) == op

\* vm.py:282-325  the verb each state-aware callback returns (None: no submission)
StateAware(op, vm_state) ==
    CASE op = "start"    -> IF vm_state = "running" THEN None ELSE "start"
      [] op = "stop"     -> IF vm_state # "running" THEN None ELSE "stop"
      [] op = "reset"    -> IF vm_state # "running" THEN "start" ELSE "reset"
      [] op = "shutdown" -> IF vm_state # "running" THEN None ELSE "shutdown"
      [] op = "reboot"   -> IF vm_state # "running" THEN "start" ELSE "reboot"

\* vm.py:258-328  power_operation
PowerOperation(agent, vm_state, op) == StateAware(Downgrade(agent, op), vm_state)

\* mutant: stop() always asks for the hard stop
StopOpHard(agent) == "stop"

\* vm.py:368  stop(): the operation it passes to power_operation
StopOp(agent) == IF ~agent THEN "stop" ELSE "shutdown"
\* vm.py:377  restart()
RestartOp(agent) == IF ~agent THEN "reset" ELSE "reboot"

\* ------------------------------------ VMProvisioner (scripts/provision.py)
ProvisionSteps == << "update_packages", "install_essentials", "create_admin_user",
                     "install_qemu_agent", "timezone_locale", "configure_swap",
                     "secure_ssh", "configure_firewall" >>
ProvisionStepSet == { ProvisionSteps[i] : i \in 1 .. Len(ProvisionSteps) }
ExitCodes == {0, 1}
\* The exit codes a provisioning attempt draws: every step succeeds, or the
\* commands of one step exit nonzero.
ExitCodeInputs ==
    LET all_zero == [ st \in ProvisionStepSet |-> 0 ]
    IN  {all_zero} \cup { [ all_zero EXCEPT ![st] = 1 ] : st \in ProvisionStepSet }

\* provision.py:65-79  the steps whose result provision() tests
StepChecked(step) ==
    step \in {"update_packages", "install_essentials", "create_admin_user",
              "install_qemu_agent"}
\* provision.py:73  the admin-user step runs only with an admin_username
StepApplies(step, admin_username) ==
    step # "create_admin_user" \/ admin_username # None
\* mutant: the admin-user step issues its commands before validating
StepIssuesAlways(step, credential) == TRUE

\* provision.py:120-122  without password and key no command is issued
StepIssues(step, credential) == step # "create_admin_user" \/ credential
\* the step's return value, from the exit code of its commands
StepOk(step, ex, credential) ==
    IF step = "create_admin_user" THEN credential /\ ex[step] = 0
    ELSE IF StepChecked(step) THEN ex[step] = 0
    ELSE TRUE

\* provision.py:64-98  the steps run in order and provision() returns False at
\* the first one that returns False: its position, 0 when none does
FirstFailure(ex, admin_username, credential) ==
    LET failing == { i \in 1 .. Len(ProvisionSteps) :
                       /\ StepApplies(ProvisionSteps[i], admin_username)
                       /\ ~StepOk(ProvisionSteps[i], ex, credential) }
    IN  IF failing = {} THEN 0
        ELSE CHOOSE i \in failing : \A j \in failing : i <= j

\* the positions of the steps whose commands are issued in that attempt
IssuedSteps(ex, admin_username, credential) ==
    LET ff == FirstFailure(ex, admin_username, credential)
    IN  { i \in 1 .. Len(ProvisionSteps) :
            /\ StepApplies(ProvisionSteps[i], admin_username)
            /\ \/ ff = 0
               \/ i < ff
               \/ i = ff /\ StepIssues(ProvisionSteps[i], credential) }

\* mutant: the flag is set whatever the agent commands returned
ProvisionFlagsAlways(ex, admin_username, credential) ==
    [ ok     |-> FirstFailure(ex, admin_username, credential) = 0,
      issued |-> { ProvisionSteps[i] : i \in IssuedSteps(ex, admin_username, credential) },
      agent  |-> TRUE ]

\* provision.py:35-101  provision(): result, steps issued, and whether
\* _install_qemu_agent reached set_agent_installed(True) (provision.py:316-318)
Provision(ex, admin_username, credential) ==
    [ ok     |-> FirstFailure(ex, admin_username, credential) = 0,
      issued |-> { ProvisionSteps[i] : i \in IssuedSteps(ex, admin_username, credential) },
      agent  |-> /\ \E i \in IssuedSteps(ex, admin_username, credential) :
                        ProvisionSteps[i] = "install_qemu_agent"
                 /\ ex["install_qemu_agent"] = 0 ]

\* provision.py:65-79 and 298-313  the exit codes with which an attempt gets
\* through _install_qemu_agent: the package update, the baseline install, the
\* admin-user step when there is one, and the agent's install, enable and
\* start commands all exit with 0
AgentCommandsOk(ex, admin_username, credential) ==
    /\ ex["update_packages"] = 0
    /\ ex["install_essentials"] = 0
    /\ admin_username # None => (credential /\ ex["create_admin_user"] = 0)
    /\ ex["install_qemu_agent"] = 0

\* no provision() call made yet
NoAttempt == [ made |-> FALSE, ex |-> [ st \in ProvisionStepSet |-> 0 ],
               ok |-> FALSE, issued |-> {} ]

\* mutant: disconnect() leaves the handle as it is
DisconnectNoop(c) == c

\* ssh.py:86-90  disconnect(): the handle is closed and cleared
Disconnect(c) == [ c EXCEPT !.client = None ]

\* the channel as provision_vm leaves it behind, for machine m
Dropped(m, c) == [ vm |-> m, client |-> c.client ]

\* ------------------------------------------------------------------ Init
\* provision_vm's locals outside a call of it
LocalsGone ==
    /\ ssh_client' = NoClient
    /\ retry_count' = 0
    /\ connected' = FALSE
    /\ tried_admin_user' = FALSE
    /\ success' = FALSE
    /\ connect_log' = << >>
    /\ connect_raised' = FALSE
    /\ switch_count' = 0
    /\ last_attempt' = NoAttempt
    /\ provision_log' = << >>

InitLocals ==
    /\ ssh_client = NoClient
    /\ retry_count = 0
    /\ connected = FALSE
    /\ tried_admin_user = FALSE
    /\ success = FALSE
    /\ connect_log = << >>
    /\ connect_raised = FALSE
    /\ switch_count = 0
    /\ last_attempt = NoAttempt
    /\ provision_log = << >>

\* no call made yet on a channel or a manager used on its own; no working
\* copy and no inventory on disk
NoChanCall == [ call |-> None, before |-> None ]
NoAnsCall == [ call |-> None ]
\* ------------------------------- the module-level declarations (__main__.py)
\* vm_id None: the hypervisor assigns the ID (vm.py:148)
AutoId == -1
NoRange == [ given |-> FALSE, min |-> 0, max |-> 0 ]
\* vm_id_min and vm_id_max as drawn: not both set, or a range of 0 .. MaxSpan + 1 IDs
IdRanges ==
    { NoRange }
    \cup { [ given |-> TRUE, min |-> FirstId, max |-> b ] :
             b \in FirstId - 1 .. FirstId + MaxSpan }

\* mutant: a range that is too small is used from its second ID on
VmIdsShifted(range, total_vms) ==
    IF ~range.given THEN << >>
    ELSE IF range.max - range.min + 1 < total_vms
    THEN [ k \in 1 .. (IF range.max >= range.min THEN range.max - range.min + 1 ELSE 0) |->
             range.min + k ]
    ELSE [ k \in 1 .. total_vms |-> range.min + k - 1 ]
\* __main__.py:142-156  vm_ids: list(range(vm_id_min, vm_id_max + 1)) when the
\* range is too small for the fleet, else list(range(vm_id_min, vm_id_min + total_vms))
VmIds(range, total_vms) ==
    IF ~range.given THEN << >>
    ELSE IF range.max - range.min + 1 < total_vms
    THEN [ k \in 1 .. (IF range.max >= range.min THEN range.max - range.min + 1 ELSE 0) |->
             range.min + k - 1 ]
    ELSE [ k \in 1 .. total_vms |-> range.min + k - 1 ]
\* __main__.py:249, 292  vm_ids[index] if vm_ids and index < len(vm_ids) else None
VmIdAt(ids, index) ==
    IF ids # << >> /\ index < Len(ids) THEN ids[index + 1] ELSE AutoId

\* __main__.py:235, 277, 497, 503, 529, 536, 633, 638  f"{prefix}-{i+1}"
NameOf(prefix, i) == [ prefix |-> prefix, ordinal |-> i + 1 ]
MasterPrefix == "k3s-master"
WorkerPrefix == "k3s-worker"

\* mutant: every machine after the first depends on the first one
DepsOnFirst(last) == IF last # 0 THEN {1} ELSE {}
\* __main__.py:256, 299  deps = [last_vm.vm] if last_vm else None
DepsOf(last) == IF last # 0 THEN {last} ELSE {}
\* vm.py:88-92, 148-149, 235  a ProxmoxVM: the name and ID it was declared
\* with, the resources it waits for, and its place in the fleet
DeclaredVm(name, vm_id, deps, pos) ==
    [ name |-> name, vm_id |-> vm_id, deps |-> deps, pos |-> pos ]

\* __main__.py:631-639  master_{i+1}_id, _name, _ip and worker_{i+1}_id,
\* _name, _ip, over enumerate(master_vms) and enumerate(worker_vms)
Exports(masters, workers) ==
    [ masters |-> [ k \in DOMAIN masters |->
                      [ id_of |-> masters[k].pos,
                        name |-> NameOf(MasterPrefix, k - 1),
                        ip_of |-> masters[k].pos ] ],
      workers |-> [ k \in DOMAIN workers |->
                      [ id_of |-> workers[k].pos,
                        name |-> NameOf(WorkerPrefix, k - 1),
                        ip_of |-> workers[k].pos ] ] ]
NoExports == [ masters |-> << >>, workers |-> << >> ]

\* __main__.py:496-498, 502-504  the name provision_vm is called with for
\* master_vms[i] and worker_vms[i]
ProvisionedAs(prefix, i) == NameOf(prefix, i)
\* __main__.py:526-538  the name listed in master_nodes and worker_nodes
ListedAs(prefix, i) == NameOf(prefix, i)

\* The module-level code has run and every creation went through: the state
\* the callback of setup_k3s_cluster starts from.
InitDeclared ==
    /\ vm_id_range = NoRange
    /\ vm_ids = << >>
    /\ master_vms = [ k \in 1 .. master_count |->
                        DeclaredVm(NameOf(MasterPrefix, k - 1), AutoId,
                                   DepsOf(k - 1), k) ]
    /\ worker_vms = [ k \in 1 .. worker_count |->
                        DeclaredVm(NameOf(WorkerPrefix, k - 1), AutoId,
                                   DepsOf(master_count + k - 1), master_count + k) ]
    /\ last_vm = NumVms
    /\ decl_pc = "exported"
    /\ decl_i = worker_count
    /\ create_failed = {}
    /\ exports = Exports(master_vms, worker_vms)
    /\ creation = [ p \in all_vms |-> "created" ]

\* ------------------------------------ the machine a VMProvisioner works on
\* a machine fresh from the template: no administrative account, no swap,
\* no firewall rule
FreshGuest ==
    [ user_exists |-> FALSE, swap_active |-> FALSE, swapfiles |-> 0,
      fstab_entries |-> 0, swappiness_entries |-> 0,
      ssh_allowed |-> FALSE, firewall_enabled |-> FALSE ]
InitGuest ==
    /\ guest = FreshGuest
    /\ guest_log = << >>

InitLib ==
    /\ chan_call = NoChanCall
    /\ repo = "absent"
    /\ hosts_ini = << >>
    /\ all_yml = << >>
    /\ ans_call = NoAnsCall
    /\ InitDeclared
    /\ InitGuest

InitFleet ==
    /\ master_count \in 1 .. MaxMasters
    /\ worker_count \in 0 .. MaxWorkers
    /\ vm_base_config \in VmBaseConfigs
    /\ start_on_create \in BOOLEAN
    /\ ip_address = [ m \in all_vms |-> "pending" ]
    /\ has_agent = [ m \in all_vms |-> FALSE ]
    /\ power_result = NoPowerCall
    /\ cur = 1
    /\ ppc = "idle"
    /\ provisioned = [ m \in all_vms |-> "none" ]
    /\ bootstrap_calls = NoBootstrap
    /\ playbook_retry = 0
    /\ agent_cmds_ok = [ m \in all_vms |-> FALSE ]
    /\ dropped_channels = {}
    /\ InitLocals

\* The state after the module-level code up to setup_k3s_cluster has run
\* (__main__.py:629): the machines are declared, the join on their addresses
\* is registered (__main__.py:626).
Init == InitFleet /\ InitLib /\ pc = "await_ips"

\* ------------------------------------------------ address resolution (join)
\* vm.py:330-335  the hypervisor reports the addresses of machine m: the Output
\* resolves to addresses[0], or to None when the list is empty.  The machines
\* are created one after the other (depends_on, __main__.py:256 and 299).
ResolveAddress(m) ==
    /\ pc = "await_ips"
    /\ ip_address[m] = "pending"
    /\ IF m = 1 THEN TRUE ELSE ip_address[m - 1] # "pending"
    /\ \E a \in {"", "ip"} : ip_address' = [ ip_address EXCEPT ![m] = a ]
    /\ UNCHANGED << cfgVars, has_agent, power_result, pc, cur, ppc, provLocals,
                    provisioned, bootstrap_calls, playbook_retry >>
    /\ UNCHANGED histVars
    /\ UNCHANGED libVars
    /\ UNCHANGED << declVars, guestVars >>

\* __main__.py:468-469  `if ip`: None and the empty string are dropped
NonEmptyIps(ips) == SelectSeq(ips, LAMBDA ip : ip # "")

\* mutant: only the masters' addresses are compared
AllIpsAvailableMastersOnly(ips, n_masters, n_workers) ==
    Len(SelectSeq(SubSeq(ips, 1, n_masters), LAMBDA ip : ip # "")) = n_masters

\* mutant: the workers' addresses are compared with the number of masters
AllIpsAvailableWrongLength(ips, n_masters, n_workers) ==
    /\ Len(SelectSeq(SubSeq(ips, 1, n_masters), LAMBDA ip : ip # "")) = n_masters
    /\ Len(SelectSeq(SubSeq(ips, n_masters + 1, Len(ips)), LAMBDA ip : ip # ""))
         = n_masters

\* __main__.py:468-472  the filter on the resolved addresses
AllIpsAvailable(ips, n_masters, n_workers) ==
    LET master_ips == NonEmptyIps(SubSeq(ips, 1, n_masters))
        worker_ips == NonEmptyIps(SubSeq(ips, n_masters + 1, Len(ips)))
    IN  Len(master_ips) = n_masters /\ Len(worker_ips) = n_workers

\* __main__.py:626 and 466-487  Output.all(*all_ips).apply(on_ips_available):
\* the callback runs once every address Output has resolved.
OnIpsAvailable ==
    /\ pc = "await_ips"
    /\ \A m \in all_vms : ip_address[m] # "pending"
    /\ LET ips == [ m \in all_vms |-> ip_address[m] ] IN
       IF ~AllIpsAvailable(ips, master_count, worker_count)
       THEN pc' = "not_all_ips"
       ELSE pc' = IF start_on_create THEN "provision" ELSE "ensure_running"
    /\ cur' = 1
    /\ UNCHANGED << cfgVars, ip_address, has_agent, power_result, ppc, provLocals,
                    provisioned, bootstrap_calls, playbook_retry >>
    /\ UNCHANGED histVars
    /\ UNCHANGED libVars
    /\ UNCHANGED << declVars, guestVars >>

\* __main__.py:479-485  ensure_vm_running(vm) -> vm.ensure_running() ->
\* power_operation("start") (vm.py:351-359), on the run state observed
EnsureRunning ==
    /\ pc = "ensure_running"
    /\ cur <= NumVms
    /\ \E s \in VmStates :
         power_result' = [ via |-> "ensure_running", vm |-> cur, op |-> "start",
                           has_agent |-> has_agent[cur], vm_state |-> s,
                           verb |-> PowerOperation(has_agent[cur], s, "start") ]
    /\ IF cur = NumVms THEN pc' = "provision" /\ cur' = 1
                       ELSE pc' = pc /\ cur' = cur + 1
    /\ UNCHANGED << cfgVars, ip_address, has_agent, ppc, provLocals, provisioned,
                    bootstrap_calls, playbook_retry >>
    /\ UNCHANGED histVars
    /\ UNCHANGED libVars
    /\ UNCHANGED << declVars, guestVars >>

\* ------------------------------------------- provision_vm (__main__.py:320)
\* vm_base_config["ssh_user"], the fixed default user of the image
DefaultUser == "ssh_user"

\* mutant: the switch is made one failure earlier
ShouldSwitchEarly(rc, using_admin_user, tried) ==
    rc >= SwitchThreshold - 1 /\ using_admin_user /\ ~tried

\* __main__.py:369  the test that switches to the administrative user
ShouldSwitchToAdmin(rc, using_admin_user, tried) ==
    rc >= SwitchThreshold /\ using_admin_user /\ ~tried

\* mutant: the loop allows one attempt more
ConnectLoopOneMore(rc, conn) == rc <= max_retries /\ ~conn

\* __main__.py:354  the condition of the connection loop
ConnectLoopContinues(rc, conn) == rc < max_retries /\ ~conn

\* mutant: a failed machine is skipped and the loop goes on
DriverContinues(ok, i) == [ pc |-> "provision", cur |-> i + 1 ]

\* mutant: only a master's failure makes on_ips_available return
DriverIgnoresWorkerFailure(ok, i) ==
    IF ok \/ ~IsMaster(i) THEN [ pc |-> "provision", cur |-> i + 1 ]
                          ELSE [ pc |-> "prov_failed", cur |-> i ]

\* __main__.py:499-501 and 505-507  on_ips_available after provision_vm
\* returned ok for machine i: the next machine, or return
DriverAfterProvision(ok, i) ==
    IF ok THEN [ pc |-> "provision", cur |-> i + 1 ]
          ELSE [ pc |-> "prov_failed", cur |-> i ]

\* mutant: the switch is counted as an attempt
RetryCountAlways(rc, switched) == rc + 1

\* __main__.py:379-387  retry_count after an iteration that did not connect:
\* the switch ends in `continue`, every other path in retry_count += 1
RetryCountAfter(rc, switched) == IF switched THEN rc ELSE rc + 1

\* ssh.py:43-84  what one ssh_client.connect() call does to its caller: it
\* returns True (an attempt connected), returns False (every attempt failed),
\* or raises from the two statements outside its try (ssh.py:54 before the
\* handle is assigned, ssh.py:55 after).
ConnectOutcomes == {"True", "False", "raise54", "raise55"}
\* ssh.py:54-76  self.client after the call
ClientAfterConnect(client, out) ==
    CASE out = "True"    -> "connected"
      [] out = "False"   -> "open"
      [] out = "raise54" -> client
      [] out = "raise55" -> "open"

\* __main__.py:320-352  entry of provision_vm(all_vms[cur]): the first channel
\* is constructed for the default user.  The call at 340-345 passes
\* key_passphrase, which SSHClient.__init__ (ssh.py:15-23) does not take, and
\* reads vm_base_config["ssh_key_passphrase"], which config.py:24-34 does not
\* set, so the construction raises; the branch in which it returns a channel
\* is kept, so that the code after line 345 is covered.
ProvisionVmEnter ==
    /\ pc = "provision"
    /\ ppc = "idle"
    /\ cur <= NumVms
    /\ \E constructs \in BOOLEAN :
         IF constructs
         THEN /\ ssh_client' = [ username |-> DefaultUser, client |-> None ]
              /\ ppc' = "connect"
              /\ provisioned' = [ provisioned EXCEPT ![cur] = "running" ]
              /\ pc' = pc
         ELSE /\ ssh_client' = NoClient
              /\ ppc' = "idle"
              /\ provisioned' = [ provisioned EXCEPT ![cur] = "raised" ]
              /\ pc' = "raised"
    /\ retry_count' = 0
    /\ connected' = FALSE
    /\ tried_admin_user' = FALSE
    /\ success' = FALSE
    /\ connect_log' = << >>
    /\ connect_raised' = FALSE
    /\ switch_count' = 0
    /\ last_attempt' = NoAttempt
    /\ provision_log' = << >>
    /\ UNCHANGED << cfgVars, ip_address, has_agent, power_result, cur,
                    bootstrap_calls, playbook_retry >>
    /\ UNCHANGED histVars
    /\ UNCHANGED libVars
    /\ UNCHANGED << declVars, guestVars >>

\* __main__.py:354-387  one iteration of the connection loop
ConnectIteration ==
    /\ ppc = "connect"
    /\ ConnectLoopContinues(retry_count, connected)
    /\ connect_log' = Append(connect_log, ssh_client.username)
    /\ \E out \in ConnectOutcomes :
         LET client == ClientAfterConnect(ssh_client.client, out)
             raised == out \in {"raise54", "raise55"}
             switch == raised /\ ShouldSwitchToAdmin(retry_count,
                                     UsingAdminUser(vm_base_config), tried_admin_user)
         IN  /\ connected' = (out = "True")
             /\ connect_raised' = (connect_raised \/ raised)
             /\ IF out = "True"
                THEN /\ ssh_client' = [ ssh_client EXCEPT !.client = client ]
                     /\ UNCHANGED << retry_count, tried_admin_user, switch_count,
                                     ppc, pc, provisioned, dropped_channels >>
                ELSE IF switch
                THEN \* 371-381: disconnect, construct the admin channel, continue
                     /\ tried_admin_user' = TRUE
                     /\ switch_count' = switch_count + 1
                     /\ retry_count' = RetryCountAfter(retry_count, TRUE)
                     /\ dropped_channels' =
                           dropped_channels \cup
                             { Dropped(cur, Disconnect([ ssh_client EXCEPT
                                                          !.client = client ])) }
                     /\ \E constructs \in BOOLEAN :
                          IF constructs
                          THEN /\ ssh_client' = [ username |-> vm_base_config.admin_username,
                                                  client |-> None ]
                               /\ UNCHANGED << ppc, pc, provisioned >>
                          ELSE /\ ssh_client' = Disconnect([ ssh_client EXCEPT
                                                                 !.client = client ])
                               /\ ppc' = "idle"
                               /\ pc' = "raised"
                               /\ provisioned' = [ provisioned EXCEPT ![cur] = "raised" ]
                ELSE /\ ssh_client' = [ ssh_client EXCEPT !.client = client ]
                     /\ retry_count' = RetryCountAfter(retry_count, FALSE)
                     /\ UNCHANGED << tried_admin_user, switch_count, ppc, pc,
                                     provisioned, dropped_channels >>
    /\ UNCHANGED << cfgVars, ip_address, has_agent, power_result, cur, success,
                    bootstrap_calls, playbook_retry, last_attempt, provision_log,
                    agent_cmds_ok >>
    /\ UNCHANGED libVars
    /\ UNCHANGED << declVars, guestVars >>

\* __main__.py:354 and 389-414  the loop has ended: without a connection
\* provision_vm returns False (and on_ips_available returns, 499-507), with
\* one it sets up the provisioning loop
ConnectLoopExit ==
    /\ ppc = "connect"
    /\ ~ConnectLoopContinues(retry_count, connected)
    /\ IF ~connected
       THEN /\ provisioned' = [ provisioned EXCEPT ![cur] = "False_connect" ]
            /\ ppc' = "idle"
            /\ pc' = DriverAfterProvision(FALSE, cur).pc
            /\ cur' = DriverAfterProvision(FALSE, cur).cur
            /\ dropped_channels' = dropped_channels \cup { Dropped(cur, ssh_client) }
            /\ LocalsGone
       ELSE /\ ppc' = "provision"
            /\ retry_count' = 0
            /\ success' = FALSE
            /\ connect_log' = << >>
            /\ connect_raised' = FALSE
            /\ switch_count' = 0
            /\ UNCHANGED << provisioned, pc, cur, connected, tried_admin_user,
                            last_attempt, provision_log, dropped_channels,
                            ssh_client >>
    /\ UNCHANGED << cfgVars, ip_address, has_agent, power_result,
                    bootstrap_calls, playbook_retry, agent_cmds_ok >>
    /\ UNCHANGED libVars
    /\ UNCHANGED << declVars, guestVars >>

\* __main__.py:402-409  the admin_username handed to provision()
ProvisionAdminUsername(cfg) ==
    IF cfg.create_admin_user THEN cfg.admin_username ELSE None

\* mutant: the provisioning loop allows one attempt more
ProvisionLoopOneMore(rc, ok) == rc <= max_provisioning_retries /\ ~ok

\* __main__.py:416  the condition of the provisioning loop
ProvisionLoopContinues(rc, ok) == rc < max_provisioning_retries /\ ~ok

\* __main__.py:416-435  one iteration of the provisioning loop: provision() is
\* called on the provisioner built once at 396, over ssh_client; the commands'
\* exit codes are the remote host's
ProvisionAttempt ==
    /\ ppc = "provision"
    /\ ProvisionLoopContinues(retry_count, success)
    /\ \E ex \in ExitCodeInputs :
         LET admin == ProvisionAdminUsername(vm_base_config) IN
         \E r \in { Provision(ex, admin, vm_base_config.admin_credential) } :
             /\ success' = r.ok
             /\ retry_count' = IF r.ok THEN retry_count ELSE retry_count + 1
             /\ has_agent' = [ has_agent EXCEPT ![cur] = IF r.agent THEN TRUE ELSE @ ]
             /\ last_attempt' = [ made |-> TRUE, ex |-> ex, ok |-> r.ok,
                                  issued |-> r.issued ]
             /\ provision_log' =
                   Append(provision_log,
                          [ ok |-> r.ok, channel |-> ssh_client.username ])
             /\ agent_cmds_ok' =
                   [ agent_cmds_ok EXCEPT
                       ![cur] = @ \/ AgentCommandsOk(ex, admin,
                                                     vm_base_config.admin_credential) ]
    /\ UNCHANGED << cfgVars, ip_address, power_result, pc, cur, ppc, ssh_client,
                    connected, tried_admin_user, connect_log, connect_raised,
                    switch_count, provisioned, bootstrap_calls, playbook_retry,
                    dropped_channels >>
    /\ UNCHANGED libVars
    /\ UNCHANGED << declVars, guestVars >>

\* __main__.py:416, 437-443 and 499-507  the provisioning loop has ended:
\* provision_vm disconnects and returns success; on False on_ips_available
\* returns, on True it goes on to the next machine
ProvisionVmReturn ==
    /\ ppc = "provision"
    /\ ~ProvisionLoopContinues(retry_count, success)
    /\ dropped_channels' = dropped_channels \cup { Dropped(cur, Disconnect(ssh_client)) }
    /\ ppc' = "idle"
    /\ provisioned' = [ provisioned EXCEPT
                          ![cur] = IF success THEN "True" ELSE "False_provision" ]
    /\ pc' = DriverAfterProvision(success, cur).pc
    /\ cur' = DriverAfterProvision(success, cur).cur
    /\ LocalsGone
    /\ UNCHANGED << cfgVars, ip_address, has_agent, power_result, bootstrap_calls,
                    playbook_retry, agent_cmds_ok >>
    /\ UNCHANGED libVars
    /\ UNCHANGED << declVars, guestVars >>

\* ------------------------------------- cluster bootstrap (__main__.py:509)
Called(step) == [ bootstrap_calls EXCEPT ![step] = @ + 1 ]

\* __main__.py:510-524  every machine is provisioned: clone_repository()
CloneRepository ==
    /\ pc = "provision" /\ ppc = "idle" /\ cur > NumVms
    /\ bootstrap_calls' = Called("clone")
    /\ \E ok \in BOOLEAN : pc' = IF ok THEN "inventory" ELSE "clone_failed"
    /\ UNCHANGED << cfgVars, ip_address, has_agent, power_result, cur, ppc,
                    provLocals, provisioned, playbook_retry >>
    /\ UNCHANGED histVars
    /\ UNCHANGED libVars
    /\ UNCHANGED << declVars, guestVars >>

\* __main__.py:526-604  generate_inventory(), then the playbook loop is set up
GenerateInventory ==
    /\ pc = "inventory"
    /\ bootstrap_calls' = Called("inventory")
    /\ \E ok \in BOOLEAN : pc' = IF ok THEN "playbook" ELSE "inventory_failed"
    /\ playbook_retry' = 0
    /\ UNCHANGED << cfgVars, ip_address, has_agent, power_result, cur, ppc,
                    provLocals, provisioned >>
    /\ UNCHANGED histVars
    /\ UNCHANGED libVars
    /\ UNCHANGED << declVars, guestVars >>

\* mutant: the loop allows one iteration more
PlaybookLoopOneMore(rc) == rc <= max_playbook_retries
\* __main__.py:606  while retry_count < max_retries and not success (a
\* success leaves the loop at the break of 611)
PlaybookLoopContinues(rc) == rc < max_playbook_retries

\* __main__.py:606-620  one iteration of the playbook loop: run_playbook()
\* returns True or False (ansible.py:185-218) or raises (the tool is missing)
RunPlaybook ==
    /\ pc = "playbook"
    /\ PlaybookLoopContinues(playbook_retry)
    /\ bootstrap_calls' = Called("playbook")
    /\ \E out \in {"True", "False", "raise"} :
         IF out = "True"
         THEN pc' = "done" /\ playbook_retry' = playbook_retry
         ELSE pc' = pc /\ playbook_retry' = playbook_retry + 1
    /\ UNCHANGED << cfgVars, ip_address, has_agent, power_result, cur, ppc,
                    provLocals, provisioned >>
    /\ UNCHANGED histVars
    /\ UNCHANGED libVars
    /\ UNCHANGED << declVars, guestVars >>

\* __main__.py:606 and 622-623  the playbook loop ran out of attempts
PlaybookLoopExit ==
    /\ pc = "playbook"
    /\ ~PlaybookLoopContinues(playbook_retry)
    /\ pc' = "playbook_failed"
    /\ UNCHANGED << cfgVars, ip_address, has_agent, power_result, cur, ppc,
                    provLocals, provisioned, bootstrap_calls, playbook_retry >>
    /\ UNCHANGED histVars
    /\ UNCHANGED libVars
    /\ UNCHANGED << declVars, guestVars >>

\* ------------------------------------- the machine handle used directly
\* vm.py:241-249  set_agent_installed(installed)
SetAgentInstalled ==
    /\ pc = "handle"
    /\ \E m \in all_vms, installed \in BOOLEAN :
         has_agent' = [ has_agent EXCEPT ![m] = installed ]
    /\ UNCHANGED << cfgVars, ip_address, power_result, pc, cur, ppc, provLocals,
                    provisioned, bootstrap_calls, playbook_retry >>
    /\ UNCHANGED histVars
    /\ UNCHANGED libVars
    /\ UNCHANGED << declVars, guestVars >>

PowerCall(via, m, op, s) ==
    [ via |-> via, vm |-> m, op |-> op, has_agent |-> has_agent[m], vm_state |-> s,
      verb |-> PowerOperation(has_agent[m], s, op) ]

\* vm.py:258-328  power_operation(operation) on the run state observed
CallPowerOperation ==
    /\ pc = "handle"
    /\ \E m \in all_vms, op \in VMPowerOp, s \in VmStates :
         power_result' = PowerCall("power_operation", m, op, s)
    /\ UNCHANGED << cfgVars, ip_address, has_agent, pc, cur, ppc, provLocals,
                    provisioned, bootstrap_calls, playbook_retry >>
    /\ UNCHANGED histVars
    /\ UNCHANGED libVars
    /\ UNCHANGED << declVars, guestVars >>

\* vm.py:361-368  stop()
CallStop ==
    /\ pc = "handle"
    /\ \E m \in all_vms, s \in VmStates :
         power_result' = PowerCall("stop", m, StopOp(has_agent[m]), s)
    /\ UNCHANGED << cfgVars, ip_address, has_agent, pc, cur, ppc, provLocals,
                    provisioned, bootstrap_calls, playbook_retry >>
    /\ UNCHANGED histVars
    /\ UNCHANGED libVars
    /\ UNCHANGED << declVars, guestVars >>

\* vm.py:370-377  restart()
CallRestart ==
    /\ pc = "handle"
    /\ \E m \in all_vms, s \in VmStates :
         power_result' = PowerCall("restart", m, RestartOp(has_agent[m]), s)
    /\ UNCHANGED << cfgVars, ip_address, has_agent, pc, cur, ppc, provLocals,
                    provisioned, bootstrap_calls, playbook_retry >>
    /\ UNCHANGED histVars
    /\ UNCHANGED libVars
    /\ UNCHANGED << declVars, guestVars >>

\* --------------------------------- SSHClient used directly (scripts/ssh.py)
\* ssh.py:57-76  the first of the retry_attempts attempts that connects (the
\* loop returns there), 0 when none does
FirstConnected(attempt_ok, retry_attempts) ==
    LET ok == { i \in 1 .. retry_attempts : attempt_ok[i] }
    IN  IF ok = {} THEN 0 ELSE CHOOSE i \in ok : \A j \in ok : i <= j

\* ssh.py:54-55  the two statements before the loop: they pass, or one raises
ConnectSetups == {"ok", "raise54", "raise55"}

\* mutant: the last failed attempt is raised to the caller
SSHConnectRaisesLast(setup, attempt_ok, retry_attempts) ==
    [ out      |-> IF setup # "ok" THEN setup
                   ELSE IF FirstConnected(attempt_ok, retry_attempts) # 0 THEN "True"
                   ELSE IF retry_attempts > 0 THEN "raise55" ELSE "False",
      attempts |-> IF setup # "ok" THEN 0
                   ELSE IF FirstConnected(attempt_ok, retry_attempts) # 0
                        THEN FirstConnected(attempt_ok, retry_attempts)
                   ELSE retry_attempts ]

\* ssh.py:43-84  connect(retry_attempts): what it gives its caller and how
\* many attempts it made; attempt_ok[i] tells whether the i-th attempt (key
\* load and client.connect, 59-75) would go through
SSHConnect(setup, attempt_ok, retry_attempts) ==
    [ out      |-> IF setup # "ok" THEN setup
                   ELSE IF FirstConnected(attempt_ok, retry_attempts) # 0 THEN "True"
                   ELSE "False",
      attempts |-> IF setup # "ok" THEN 0
                   ELSE IF FirstConnected(attempt_ok, retry_attempts) # 0
                        THEN FirstConnected(attempt_ok, retry_attempts)
                   ELSE retry_attempts ]

\* what the remote side does with one command: the transport carries it or
\* fails, the command exits with exit_code, its output is valid UTF-8 or not
ExecEnvs == [ transport_ok : BOOLEAN, exit_code : ExitCodes, decodable : BOOLEAN ]

\* ssh.py:103-113  execute_command: RuntimeError without a client handle;
\* with one, any exception of exec_command, recv_exit_status, read or
\* decode('utf-8') is turned into (-1, "", str(e)).  A handle that never
\* connected (ssh.py:54 assigns it before the attempts) fails in exec_command.
ExecuteCommand(client, env) ==
    IF client = None
    THEN [ raised |-> TRUE, exit_code |-> 0, stdout |-> "", stderr |-> "" ]
    ELSE IF client # "connected" \/ ~env.transport_ok \/ ~env.decodable
    THEN [ raised |-> FALSE, exit_code |-> -1, stdout |-> "", stderr |-> "str(e)" ]
    ELSE [ raised |-> FALSE, exit_code |-> env.exit_code, stdout |-> "stdout",
           stderr |-> "stderr" ]

\* ssh.py:126-136 and 149-159  upload_file / download_file: RuntimeError
\* without a client handle, otherwise True, or False on any exception
Transfer(client, sftp_ok) ==
    IF client = None THEN "raise"
    ELSE IF client = "connected" /\ sftp_ok THEN "True"
    ELSE "False"

\* ssh.py:43  a caller calls connect(retry_attempts) on the channel
ChannelConnect ==
    /\ pc = "channel"
    /\ \E setup \in ConnectSetups, attempt_ok \in [ 1 .. MaxAttempts -> BOOLEAN ],
          retry_attempts \in 0 .. MaxAttempts :
         \E r \in { SSHConnect(setup, attempt_ok, retry_attempts) } :
            /\ ssh_client' = [ ssh_client EXCEPT
                                 !.client = ClientAfterConnect(@, r.out) ]
            /\ chan_call' = [ call |-> "connect", before |-> ssh_client.client,
                              setup |-> setup, attempt_ok |-> attempt_ok,
                              retry_attempts |-> retry_attempts,
                              out |-> r.out, attempts |-> r.attempts ]
    /\ UNCHANGED << cfgVars, ip_address, has_agent, power_result, pc, cur, ppc,
                    retry_count, connected, tried_admin_user, success, connect_log,
                    connect_raised, switch_count, last_attempt, provision_log,
                    provisioned, bootstrap_calls, playbook_retry, histVars,
                    repo, hosts_ini, all_yml, ans_call >>
    /\ UNCHANGED << declVars, guestVars >>

\* ssh.py:86  a caller calls disconnect()
ChannelDisconnect ==
    /\ pc = "channel"
    /\ ssh_client' = Disconnect(ssh_client)
    /\ chan_call' = [ call |-> "disconnect", before |-> ssh_client.client ]
    /\ UNCHANGED << cfgVars, ip_address, has_agent, power_result, pc, cur, ppc,
                    retry_count, connected, tried_admin_user, success, connect_log,
                    connect_raised, switch_count, last_attempt, provision_log,
                    provisioned, bootstrap_calls, playbook_retry, histVars,
                    repo, hosts_ini, all_yml, ans_call >>
    /\ UNCHANGED << declVars, guestVars >>

\* ssh.py:92  a caller calls execute_command(command)
ChannelExecute ==
    /\ pc = "channel"
    /\ \E env \in ExecEnvs :
         chan_call' = [ call |-> "execute_command", before |-> ssh_client.client,
                        env |-> env,
                        result |-> ExecuteCommand(ssh_client.client, env) ]
    /\ UNCHANGED << cfgVars, ip_address, has_agent, power_result, pc, cur, ppc,
                    provLocals, provisioned, bootstrap_calls, playbook_retry,
                    histVars, repo, hosts_ini, all_yml, ans_call >>
    /\ UNCHANGED << declVars, guestVars >>

\* ssh.py:115  a caller calls upload_file(local_path, remote_path)
ChannelUpload ==
    /\ pc = "channel"
    /\ \E sftp_ok \in BOOLEAN :
         chan_call' = [ call |-> "upload_file", before |-> ssh_client.client,
                        sftp_ok |-> sftp_ok,
                        result |-> Transfer(ssh_client.client, sftp_ok) ]
    /\ UNCHANGED << cfgVars, ip_address, has_agent, power_result, pc, cur, ppc,
                    provLocals, provisioned, bootstrap_calls, playbook_retry,
                    histVars, repo, hosts_ini, all_yml, ans_call >>
    /\ UNCHANGED << declVars, guestVars >>

\* ssh.py:138  a caller calls download_file(remote_path, local_path)
ChannelDownload ==
    /\ pc = "channel"
    /\ \E sftp_ok \in BOOLEAN :
         chan_call' = [ call |-> "download_file", before |-> ssh_client.client,
                        sftp_ok |-> sftp_ok,
                        result |-> Transfer(ssh_client.client, sftp_ok) ]
    /\ UNCHANGED << cfgVars, ip_address, has_agent, power_result, pc, cur, ppc,
                    provLocals, provisioned, bootstrap_calls, playbook_retry,
                    histVars, repo, hosts_ini, all_yml, ans_call >>
    /\ UNCHANGED << declVars, guestVars >>

\* ------------------------- AnsibleManager used directly (scripts/ansible.py)
RECURSIVE Power(_, _)
Power(b, e) == IF e = 0 THEN 1 ELSE b * Power(b, e - 1)
\* the largest address IPv4Address accepts (2^32 - 1 in the code)
MaxAddress == Power(OctetSize, NumOctets) - 1
\* str(IPv4Address): the address written as its octets, most significant first
Dotted(a) ==
    [ i \in 1 .. NumOctets |-> (a \div Power(OctetSize, NumOctets - i)) % OctetSize ]

\* the network strings drawn: one that ipaddress.IPv4Network rejects, the
\* first network of the address space and the last one
Networks ==
    { [ valid |-> FALSE, address |-> 0 ],
      [ valid |-> TRUE, address |-> 0 ],
      [ valid |-> TRUE, address |-> MaxAddress + 1 - OctetSize ] }
Offsets == -1 .. MaxOffset
NoIps == [ master_ips |-> << >>, worker_ips |-> << >> ]

\* mutant: the addresses computed before the failing one are returned
CalculateIpAddressesPartial(network, start_ip_offset, num_masters, num_workers) ==
    IF ~network.valid THEN NoIps
    ELSE LET good == { i \in 1 .. num_masters + num_workers :
                         \A j \in 1 .. i :
                            network.address + start_ip_offset + (j - 1)
                               \in 0 .. MaxAddress }
             all_ips == [ i \in 1 .. Cardinality(good) |->
                            Dotted(network.address + start_ip_offset + (i - 1)) ]
         IN  [ master_ips |-> [ i \in { j \in 1 .. num_masters : j \in good } |->
                                  all_ips[i] ],
               worker_ips |-> [ i \in { j \in 1 .. num_workers :
                                           j + num_masters \in good } |->
                                  all_ips[i + num_masters] ] ]

\* mutant: the workers are numbered before the masters
CalculateIpAddressesWorkersFirst(network, start_ip_offset, num_masters, num_workers) ==
    IF \/ ~network.valid
       \/ \E i \in 1 .. num_masters + num_workers :
             network.address + start_ip_offset + (i - 1) \notin 0 .. MaxAddress
    THEN NoIps
    ELSE LET all_ips == [ i \in 1 .. num_masters + num_workers |->
                            Dotted(network.address + start_ip_offset + (i - 1)) ]
         IN  [ master_ips |-> SubSeq(all_ips, num_workers + 1, Len(all_ips)),
               worker_ips |-> SubSeq(all_ips, 1, num_workers) ]

\* ansible.py:241-259  calculate_ip_addresses: IPv4Network(network) raises on
\* a malformed string and network_address + offset raises outside the address
\* range; every exception inside the try gives ([], [])
CalculateIpAddresses(network, start_ip_offset, num_masters, num_workers) ==
    IF \/ ~network.valid
       \/ \E i \in 1 .. num_masters + num_workers :
             network.address + start_ip_offset + (i - 1) \notin 0 .. MaxAddress
    THEN NoIps
    ELSE LET all_ips == [ i \in 1 .. num_masters + num_workers |->
                            Dotted(network.address + start_ip_offset + (i - 1)) ]
         IN  [ master_ips |-> SubSeq(all_ips, 1, num_masters),
               worker_ips |-> SubSeq(all_ips, num_masters + 1, Len(all_ips)) ]

\* __main__.py:108-114  calculate_ip_addresses(network, gateway, ip_start,
\* master_count, worker_count)
CallCalculateIpAddresses ==
    /\ pc = "addresses"
    /\ \E network \in Networks, start_ip_offset \in Offsets :
         ans_call' = [ call |-> "calculate_ip_addresses", network |-> network,
                       start_ip_offset |-> start_ip_offset,
                       num_masters |-> master_count, num_workers |-> worker_count,
                       result |-> CalculateIpAddresses(network, start_ip_offset,
                                                       master_count, worker_count) ]
    /\ UNCHANGED << cfgVars, ip_address, has_agent, power_result, pc, cur, ppc,
                    provLocals, provisioned, bootstrap_calls, playbook_retry,
                    histVars, chan_call, repo, hosts_ini, all_yml >>
    /\ UNCHANGED << declVars, guestVars >>

\* A file is a sequence of lines, a line a text followed by an address
\* (<< >> when the line holds none).
Text(t) == [ text |-> t, addr |-> << >> ]
Addr(ip) == [ text |-> "", addr |-> ip ]
\* str + str, for a text followed by an address
Concat(a, b) == [ text |-> a.text, addr |-> b.addr ]

\* mutant: the file is opened for appending
AppendFile(old, content) == old \o content
\* ansible.py:117, 174  open(path, "w"): the old content is dropped
WriteFile(old, content) == content

\* ansible.py:118-140  the lines of hosts.ini
HostsIni(master_ips, worker_ips) ==
    << Text("[master]") >>
    \o [ i \in 1 .. Len(master_ips) |-> Addr(master_ips[i]) ]
    \o << Text("") >>
    \o << Text("[node]") >>
    \o [ i \in 1 .. Len(worker_ips) |-> Addr(worker_ips[i]) ]
    \o << Text("") >>
    \o << Text("# only required if proxmox_lxc_configure: true"),
          Text("# must contain all proxmox instances that have a master or worker node"),
          Text("# [proxmox]"),
          Text("# 192.168.30.43"),
          Text("") >>
    \o << Text("[k3s_cluster:children]"), Text("master"), Text("node") >>

\* the settings a caller passes as extra_vars, in the order it inserted them
ExtraKeyOrder == << "k3s_token", "apiserver_endpoint", "custom_key" >>
CallerValue(key) ==
    IF key = "apiserver_endpoint" THEN Addr(Dotted(MaxAddress))
    ELSE Text("caller-supplied")
ExtraVarsInputs ==
    { [ given |-> FALSE, vars |-> << >> ] }
    \cup { [ given |-> TRUE, vars |-> [ k \in K |-> CallerValue(k) ] ] :
             K \in { S \in SUBSET { ExtraKeyOrder[i] : i \in DOMAIN ExtraKeyOrder } :
                       Cardinality(S) <= 1 \/ Cardinality(S) = Len(ExtraKeyOrder) } }
\* dict.get(key, default)
Get(d, key, default) == IF key \in DOMAIN d THEN d[key] ELSE default

\* ansible.py:144  api_endpoint
ApiEndpoint(master_ips) ==
    IF Len(master_ips) > 0 THEN Addr(master_ips[1]) ELSE Text("127.0.0.1")
\* ansible.py:147-167  all_vars, in insertion order
AllVars(master_ips, k3s_version, ansible_user, extra_vars) ==
    << [ key |-> "k3s_version", value |-> k3s_version ],
       [ key |-> "ansible_user", value |-> ansible_user ],
       [ key |-> "systemd_dir", value |-> Text("/etc/systemd/system") ],
       [ key |-> "system_timezone",
         value |-> Get(extra_vars, "system_timezone", Text("UTC")) ],
       [ key |-> "apiserver_endpoint", value |-> ApiEndpoint(master_ips) ],
       [ key |-> "flannel_iface", value |-> Text("eth0") ],
       [ key |-> "k3s_token",
         value |-> Get(extra_vars, "k3s_token", Text("pulumi-generated-token")) ],
       [ key |-> "metal_lb_mode", value |-> Text("layer2") ],
       [ key |-> "metal_lb_type", value |-> Text("native") ],
       [ key |-> "metal_lb_ip_range",
         value |-> Get(extra_vars, "metal_lb_ip_range",
                       Text("192.168.1.150-192.168.1.160")) ],
       [ key |-> "extra_server_args",
         value |-> Concat(Text("--disable servicelb --disable traefik --tls-san "),
                          ApiEndpoint(master_ips)) ],
       [ key |-> "extra_agent_args", value |-> Text("") ],
       [ key |-> "ansible_ssh_private_key_file",
         value |-> Get(extra_vars, "ansible_ssh_private_key_file",
                       Text("~/.ssh/id_rsa")) ] >>
\* ansible.py:170-171  all_vars.update(extra_vars): a key already present
\* keeps its place and takes the caller's value, a new key is added at the end
Update(all_vars, extra_vars) ==
    LET keys == { all_vars[i].key : i \in DOMAIN all_vars }
        IsNew(k) == k \in DOMAIN extra_vars /\ k \notin keys
        added == SelectSeq(ExtraKeyOrder, IsNew)
    IN  [ i \in DOMAIN all_vars |->
            [ key |-> all_vars[i].key,
              value |-> Get(extra_vars, all_vars[i].key, all_vars[i].value) ] ]
        \o [ i \in DOMAIN added |->
               [ key |-> added[i], value |-> extra_vars[added[i]] ] ]
\* ansible.py:177  value.startswith("-"), over the texts the model draws
StartsWithDash(value) ==
    value.text = "--disable servicelb --disable traefik --tls-san "
\* ansible.py:174-180  the lines of all.yml: a string that does not start
\* with "-" is written between double quotes
AllYml(all_vars) ==
    << [ key |-> "---", quoted |-> FALSE, value |-> Text("") ] >>
    \o [ i \in DOMAIN all_vars |->
           [ key |-> all_vars[i].key,
             quoted |-> ~StartsWithDash(all_vars[i].value),
             value |-> all_vars[i].value ] ]

\* ansible.py:103-183  generate_inventory: False without the working copy;
\* hosts.ini is written first; extra_vars.get at 145 raises when extra_vars is
\* None; then all.yml is written
GenerateInventoryRun(working_copy, old_hosts, old_all, master_ips, worker_ips, k3s_version, ansible_user, extra_vars) ==
    IF working_copy = "absent"
    THEN [ result |-> "False", hosts_ini |-> old_hosts, all_yml |-> old_all ]
    ELSE IF ~extra_vars.given
    THEN [ result |-> "raise",
           hosts_ini |-> WriteFile(old_hosts, HostsIni(master_ips, worker_ips)),
           all_yml |-> old_all ]
    ELSE [ result |-> "True",
           hosts_ini |-> WriteFile(old_hosts, HostsIni(master_ips, worker_ips)),
           all_yml |-> WriteFile(old_all,
                          AllYml(Update(AllVars(master_ips, k3s_version,
                                                ansible_user, extra_vars.vars),
                                        extra_vars.vars))) ]

\* the addresses of the machines: distinct machines have distinct addresses,
\* handed out in rising or in falling order
NodeIps(n, rising) ==
    [ i \in 1 .. n |-> Dotted(IF rising THEN i ELSE n + 1 - i) ]

\* __main__.py:589-595  generate_inventory(master_nodes, worker_nodes, ...)
CallGenerateInventory ==
    /\ pc = "ansible"
    /\ \E rising \in BOOLEAN, extra_vars \in ExtraVarsInputs :
         \E ips \in { NodeIps(master_count + worker_count, rising) } :
           \E r \in { GenerateInventoryRun(repo, hosts_ini, all_yml,
                         SubSeq(ips, 1, master_count),
                         SubSeq(ips, master_count + 1, Len(ips)),
                         Text("k3s_version"),
                         Text(IF UsingAdminUser(vm_base_config)
                              THEN vm_base_config.admin_username
                              ELSE DefaultUser),
                         extra_vars) } :
              /\ ans_call' = [ call |-> "generate_inventory",
                               master_ips |-> SubSeq(ips, 1, master_count),
                               worker_ips |-> SubSeq(ips, master_count + 1, Len(ips)),
                               extra_vars |-> extra_vars,
                               result |-> r.result ]
              /\ hosts_ini' = r.hosts_ini
              /\ all_yml' = r.all_yml
    /\ UNCHANGED << cfgVars, ip_address, has_agent, power_result, pc, cur, ppc,
                    provLocals, provisioned, bootstrap_calls, playbook_retry,
                    histVars, chan_call, repo >>
    /\ UNCHANGED << declVars, guestVars >>

\* what a git or ansible-playbook subprocess can do: exit 0, exit nonzero
\* (CalledProcessError), or not start at all (FileNotFoundError and other
\* OSError from subprocess.check_call)
ProcessOutcomes == {"exit0", "nonzero", "cannot_start"}
CloneEnvs == [ pull : ProcessOutcomes, rmtree_ok : BOOLEAN, clone : ProcessOutcomes ]
\* the outcomes of the steps clone_repository gets to; a step it does not
\* reach is left at its first outcome
CloneEnvsFor(working_copy, cache_repo) ==
    { e \in CloneEnvs :
        /\ ~(working_copy = "present" /\ cache_repo) => e.pull = "exit0"
        /\ (working_copy = "absent" \/ (cache_repo /\ e.pull # "nonzero"))
              => e.rmtree_ok
        /\ (working_copy = "present" /\ cache_repo /\ e.pull # "nonzero")
              => e.clone = "exit0" }

\* ansible.py:61, 65  shutil.rmtree(path, ignore_errors=True): a removal that
\* fails is not reported and leaves the copy in place
Rmtree(working_copy, rmtree_ok) ==
    IF working_copy = "present" /\ ~rmtree_ok THEN "present" ELSE "absent"
\* ansible.py:68-80  git clone into local_path; git refuses a directory that
\* is there and not empty; only CalledProcessError is caught
GitClone(working_copy, env) ==
    IF env.clone = "cannot_start"
    THEN [ result |-> "raise", repo |-> working_copy, cloned_onto |-> working_copy ]
    ELSE IF working_copy = "present" \/ env.clone = "nonzero"
    THEN [ result |-> "False", repo |-> working_copy, cloned_onto |-> working_copy ]
    ELSE [ result |-> "True", repo |-> "present", cloned_onto |-> working_copy ]
\* ansible.py:42-80  clone_repository
CloneRepositoryRun(working_copy, cache_repo, env) ==
    IF working_copy = "present" /\ cache_repo
    THEN IF env.pull = "exit0"
         THEN [ result |-> "True", repo |-> "present", cloned_onto |-> None ]
         ELSE IF env.pull = "cannot_start"
         THEN [ result |-> "raise", repo |-> "present", cloned_onto |-> None ]
         ELSE GitClone(Rmtree(working_copy, env.rmtree_ok), env)
    ELSE GitClone(Rmtree(working_copy, env.rmtree_ok), env)
\* ansible.py:61, 65 and 107  the inventory files live under local_path: they
\* go when the working copy is removed
FilesAfterClone(working_copy, r, file) ==
    IF working_copy = "present" /\ r.cloned_onto = "absent" THEN << >> ELSE file

\* __main__.py:522  ansible.clone_repository()
CallCloneRepository ==
    /\ pc = "ansible"
    /\ \E cache_repo \in BOOLEAN :
       \E env \in CloneEnvsFor(repo, cache_repo) :
         \E r \in { CloneRepositoryRun(repo, cache_repo, env) } :
            /\ ans_call' = [ call |-> "clone_repository", before |-> repo,
                             cache_repo |-> cache_repo, env |-> env,
                             result |-> r.result, cloned_onto |-> r.cloned_onto ]
            /\ repo' = r.repo
            /\ hosts_ini' = FilesAfterClone(repo, r, hosts_ini)
            /\ all_yml' = FilesAfterClone(repo, r, all_yml)
    /\ UNCHANGED << cfgVars, ip_address, has_agent, power_result, pc, cur, ppc,
                    provLocals, provisioned, bootstrap_calls, playbook_retry,
                    histVars, chan_call >>
    /\ UNCHANGED << declVars, guestVars >>

\* ansible.py:195-218  run_playbook: False when the playbook file is missing;
\* only CalledProcessError is caught around ansible-playbook
RunPlaybookRun(working_copy, tool) ==
    IF working_copy = "absent" THEN "False"
    ELSE IF tool = "exit0" THEN "True"
    ELSE IF tool = "nonzero" THEN "False"
    ELSE "raise"

\* __main__.py:607  ansible.run_playbook()
CallRunPlaybook ==
    /\ pc = "ansible"
    /\ \E tool \in ProcessOutcomes :
         ans_call' = [ call |-> "run_playbook", before |-> repo, tool |-> tool,
                       result |-> RunPlaybookRun(repo, tool) ]
    /\ UNCHANGED << cfgVars, ip_address, has_agent, power_result, pc, cur, ppc,
                    provLocals, provisioned, bootstrap_calls, playbook_retry,
                    histVars, chan_call, repo, hosts_ini, all_yml >>
    /\ UNCHANGED << declVars, guestVars >>

\* ------------------------------------- the creation loops (__main__.py)
otherVars == << cfgVars, ip_address, has_agent, power_result, pc, cur, ppc,
                provLocals, provisioned, bootstrap_calls, playbook_retry, histVars,
                libVars >>

\* mutant: a failing master ends the program wherever it stands in the loop
MasterFailureAlwaysFatal(masters) == TRUE
\* __main__.py:271  if not master_vms: raise
MasterFailureFatal(masters) == masters = << >>

\* whether create_vm_with_deps raises: at most MaxCreateFailures times
CreateOutcomes ==
    { raises \in BOOLEAN : raises => Cardinality(create_failed) < MaxCreateFailures }

\* __main__.py:233-272  one iteration of the master loop
DeclareMaster ==
    /\ pc = "declare"
    /\ decl_pc = "masters"
    /\ decl_i < master_count
    /\ \E raises \in CreateOutcomes :
         IF ~raises
         THEN /\ master_vms' = Append(master_vms,
                                  DeclaredVm(NameOf(MasterPrefix, decl_i),
                                             VmIdAt(vm_ids, decl_i),
                                             DepsOf(last_vm), decl_i + 1))
              /\ last_vm' = decl_i + 1
              /\ creation' = [ creation EXCEPT ![decl_i + 1] = "pending" ]
              /\ create_failed' = create_failed
              /\ decl_pc' = IF decl_i + 1 < master_count THEN "masters" ELSE "workers"
              /\ decl_i' = IF decl_i + 1 < master_count THEN decl_i + 1 ELSE 0
         ELSE /\ create_failed' = create_failed \cup { decl_i + 1 }
              /\ UNCHANGED << master_vms, last_vm, creation >>
              /\ IF MasterFailureFatal(master_vms)
                 THEN decl_pc' = "raised" /\ decl_i' = decl_i
                 ELSE /\ decl_pc' = IF decl_i + 1 < master_count
                                    THEN "masters" ELSE "workers"
                      /\ decl_i' = IF decl_i + 1 < master_count THEN decl_i + 1 ELSE 0
    /\ UNCHANGED << vm_id_range, vm_ids, worker_vms, exports >>
    /\ UNCHANGED << otherVars, guestVars >>

\* __main__.py:275-313  one iteration of the worker loop
DeclareWorker ==
    /\ pc = "declare"
    /\ decl_pc = "workers"
    /\ decl_i < worker_count
    /\ \E raises \in CreateOutcomes :
         IF ~raises
         THEN /\ worker_vms' = Append(worker_vms,
                                  DeclaredVm(NameOf(WorkerPrefix, decl_i),
                                             VmIdAt(vm_ids, master_count + decl_i),
                                             DepsOf(last_vm),
                                             master_count + decl_i + 1))
              /\ last_vm' = master_count + decl_i + 1
              /\ creation' = [ creation EXCEPT ![master_count + decl_i + 1] = "pending" ]
              /\ create_failed' = create_failed
         ELSE /\ create_failed' = create_failed \cup { master_count + decl_i + 1 }
              /\ UNCHANGED << worker_vms, last_vm, creation >>
    /\ decl_i' = decl_i + 1
    /\ UNCHANGED << vm_id_range, vm_ids, master_vms, decl_pc, exports >>
    /\ UNCHANGED << otherVars, guestVars >>

\* __main__.py:315-316, 626-640  after the loops: the callback is registered
\* (setup_k3s_cluster) and the outputs are exported
ExportOutputs ==
    /\ pc = "declare"
    /\ decl_pc = "workers"
    /\ decl_i >= worker_count
    /\ exports' = Exports(master_vms, worker_vms)
    /\ decl_pc' = "exported"
    /\ UNCHANGED << vm_id_range, vm_ids, master_vms, worker_vms, last_vm, decl_i,
                    create_failed, creation >>
    /\ UNCHANGED << otherVars, guestVars >>

\* the machines declared so far, in declaration order
DeclaredVms == master_vms \o worker_vms
VmAt(p) == DeclaredVms[CHOOSE k \in DOMAIN DeclaredVms : DeclaredVms[k].pos = p]

\* __main__.py:192-202  depends_on: the hypervisor starts creating a machine
\* once every resource it depends on is created
BeginCreate(p) ==
    /\ pc = "declare"
    /\ creation[p] = "pending"
    /\ \A d \in VmAt(p).deps : creation[d] = "created"
    /\ creation' = [ creation EXCEPT ![p] = "creating" ]
    /\ UNCHANGED << vm_id_range, vm_ids, master_vms, worker_vms, last_vm, decl_pc,
                    decl_i, create_failed, exports >>
    /\ UNCHANGED << otherVars, guestVars >>

\* vm.py:235-239  the hypervisor has created the machine
EndCreate(p) ==
    /\ pc = "declare"
    /\ creation[p] = "creating"
    /\ creation' = [ creation EXCEPT ![p] = "created" ]
    /\ UNCHANGED << vm_id_range, vm_ids, master_vms, worker_vms, last_vm, decl_pc,
                    decl_i, create_failed, exports >>
    /\ UNCHANGED << otherVars, guestVars >>

\* ------------------- the provisioning commands on the machine (provision.py)
\* The command of a call that exits nonzero for a reason of the machine's or
\* the channel's (at most one per call); "none": every command does what the
\* state of the machine lets it do.
ProvisionFaults ==
    { "none", "apt_update", "apt_essentials", "adduser", "agent", "swapon_show",
      "swapon", "ufw_allow_ssh" }
SwapFaults == { "none", "swapon_show", "fallocate", "mkswap", "swapon" }

\* provision.py:103-178  _create_admin_user: without password and key no
\* command is issued; adduser exits nonzero for an account that exists; every
\* tested command that exits nonzero ends the step with False
CreateAdminUser(g, credential, fault) ==
    IF ~credential
    THEN [ ok |-> FALSE, guest |-> g, created |-> FALSE ]
    ELSE IF g.user_exists \/ fault = "adduser"
    THEN [ ok |-> FALSE, guest |-> g, created |-> FALSE ]
    ELSE [ ok |-> TRUE, guest |-> [ g EXCEPT !.user_exists = TRUE ],
           created |-> TRUE ]

SwapCommands ==
    { "fallocate", "chmod", "mkswap", "swapon", "tee -a /etc/fstab",
      "tee -a /etc/sysctl.conf", "sysctl -p" }
\* provision.py:179-200  _configure_swap: "swapon --show" with exit code 0 and
\* output means swap is active and nothing is done; otherwise the seven
\* commands are issued whatever their exit codes: /swapfile is made unless
\* fallocate fails (it fails on a file in use), swap gets active when
\* fallocate, mkswap and swapon pass, and the two tee -a append their line
ConfigureSwap(g, fault) ==
    IF g.swap_active /\ fault # "swapon_show"
    THEN [ guest |-> g, mutating |-> {} ]
    ELSE [ guest |-> [ g EXCEPT
                         !.swapfiles = IF fault = "fallocate" /\ ~g.swap_active
                                       THEN g.swapfiles ELSE 1,
                         !.swap_active = \/ g.swap_active
                                         \/ fault \notin {"fallocate", "mkswap", "swapon"},
                         !.fstab_entries = @ + 1,
                         !.swappiness_entries = @ + 1 ],
           mutating |-> SwapCommands ]

\* provision.py:228-246  _configure_firewall: the rules are added and
\* "ufw --force enable" is issued, no exit code is looked at
ConfigureFirewall(g, fault) ==
    [ guest |-> [ g EXCEPT !.ssh_allowed = @ \/ fault # "ufw_allow_ssh",
                           !.firewall_enabled = TRUE ],
      allow_ssh_exit |-> IF fault = "ufw_allow_ssh" THEN 1 ELSE 0,
      enable_issued |-> TRUE ]

NoFirewall(g) == [ guest |-> g, allow_ssh_exit |-> 0, enable_issued |-> FALSE ]
Attempt(fault, ok, failed_at, g, created, swap, fw) ==
    [ call |-> "provision", fault |-> fault, ok |-> ok, failed_at |-> failed_at,
      guest |-> g, created_user |-> created, swap_mutating |-> swap,
      allow_ssh_exit |-> fw.allow_ssh_exit, enable_issued |-> fw.enable_issued ]
\* provision.py:35-101  provision() against the machine: the steps in order,
\* False at the first tested step that fails
ProvisionOn(g, admin_username, credential, fault) ==
    IF fault = "apt_update"
    THEN Attempt(fault, FALSE, "update_packages", g, FALSE, {}, NoFirewall(g))
    ELSE IF fault = "apt_essentials"
    THEN Attempt(fault, FALSE, "install_essentials", g, FALSE, {}, NoFirewall(g))
    ELSE
    LET u == IF admin_username # None
             THEN CreateAdminUser(g, credential, fault)
             ELSE [ ok |-> TRUE, guest |-> g, created |-> FALSE ]
    IN  IF ~u.ok
        THEN Attempt(fault, FALSE, "create_admin_user", u.guest, FALSE, {},
                     NoFirewall(u.guest))
        ELSE IF fault = "agent"
        THEN Attempt(fault, FALSE, "install_qemu_agent", u.guest, u.created, {},
                     NoFirewall(u.guest))
        ELSE LET sw == ConfigureSwap(u.guest, fault)
                 fw == ConfigureFirewall(sw.guest, fault)
             IN  Attempt(fault, TRUE, None, fw.guest, u.created, sw.mutating, fw)

\* __main__.py:416-435  one iteration of the provisioning loop, on the machine
GuestProvisionAttempt ==
    /\ pc = "guest"
    /\ ProvisionLoopContinues(retry_count, success)
    /\ \E fault \in ProvisionFaults :
         \E a \in { ProvisionOn(guest, ProvisionAdminUsername(vm_base_config),
                                vm_base_config.admin_credential, fault) } :
            /\ success' = a.ok
            /\ retry_count' = IF a.ok THEN retry_count ELSE retry_count + 1
            /\ guest' = a.guest
            /\ guest_log' = Append(guest_log, a)
    /\ UNCHANGED << cfgVars, ip_address, has_agent, power_result, pc, cur, ppc,
                    ssh_client, connected, tried_admin_user, connect_log,
                    connect_raised, switch_count, last_attempt, provision_log,
                    provisioned, bootstrap_calls, playbook_retry, histVars,
                    libVars, declVars >>

\* provision.py:179  _configure_swap() called on the provisioner
CallConfigureSwap ==
    /\ pc = "swap"
    /\ Len(guest_log) < MaxSwapCalls
    /\ \E fault \in SwapFaults :
         \E r \in { ConfigureSwap(guest, fault) } :
            /\ guest' = r.guest
            /\ guest_log' = Append(guest_log,
                                   [ call |-> "configure_swap", fault |-> fault,
                                     guest |-> r.guest, mutating |-> r.mutating ])
    /\ UNCHANGED << otherVars, declVars >>

\* ------------------------------------------------------- specifications
\* The steps of the program itself (the address reports are the hypervisor's)
DriverStep ==
    \/ OnIpsAvailable
    \/ EnsureRunning
    \/ ProvisionVmEnter
    \/ ConnectIteration
    \/ ConnectLoopExit
    \/ ProvisionAttempt
    \/ ProvisionVmReturn
    \/ CloneRepository
    \/ GenerateInventory
    \/ RunPlaybook
    \/ PlaybookLoopExit

Next ==
    \/ \E m \in all_vms : ResolveAddress(m)
    \/ OnIpsAvailable
    \/ EnsureRunning
    \/ ProvisionVmEnter
    \/ ConnectIteration
    \/ ConnectLoopExit
    \/ ProvisionAttempt
    \/ ProvisionVmReturn
    \/ CloneRepository
    \/ GenerateInventory
    \/ RunPlaybook
    \/ PlaybookLoopExit

Spec == Init /\ [][Next]_vars

\* The driver is one thread that runs until it returns or raises: a step of
\* the program that is enabled is eventually taken.
FairSpec == Init /\ [][Next]_vars /\ WF_vars(DriverStep)

\* The machine handles (ProxmoxVM) on their own: any caller, any order of
\* set_agent_installed, power_operation, stop and restart.
InitPower == InitFleet /\ InitLib /\ pc = "handle"
NextPower ==
    \/ SetAgentInstalled
    \/ CallPowerOperation
    \/ CallStop
    \/ CallRestart
SpecPower == InitPower /\ [][NextPower]_vars

\* One channel (SSHClient) on its own, constructed for the default user
\* (ssh.py:35-41): any caller, any order of connect, disconnect,
\* execute_command, upload_file and download_file.
InitChannel ==
    /\ master_count \in 1 .. MaxMasters
    /\ worker_count \in 0 .. MaxWorkers
    /\ vm_base_config \in { c \in VmBaseConfigs :
                              /\ c.create_admin_user
                              /\ c.admin_credential
                              /\ c.admin_username # None }
    /\ start_on_create = TRUE
    /\ ip_address = [ m \in all_vms |-> "pending" ]
    /\ has_agent = [ m \in all_vms |-> FALSE ]
    /\ power_result = NoPowerCall
    /\ cur = 1
    /\ ppc = "idle"
    /\ provisioned = [ m \in all_vms |-> "none" ]
    /\ bootstrap_calls = NoBootstrap
    /\ playbook_retry = 0
    /\ agent_cmds_ok = [ m \in all_vms |-> FALSE ]
    /\ dropped_channels = {}
    /\ ssh_client = [ username |-> DefaultUser, client |-> None ]
    /\ retry_count = 0
    /\ connected = FALSE
    /\ tried_admin_user = FALSE
    /\ success = FALSE
    /\ connect_log = << >>
    /\ connect_raised = FALSE
    /\ switch_count = 0
    /\ last_attempt = NoAttempt
    /\ provision_log = << >>
    /\ repo = "absent"
    /\ hosts_ini = << >>
    /\ all_yml = << >>
    /\ ans_call = NoAnsCall
    /\ chan_call = NoChanCall
    /\ InitDeclared
    /\ InitGuest
    /\ pc = "channel"
NextChannel ==
    \/ ChannelConnect
    \/ ChannelDisconnect
    \/ ChannelExecute
    \/ ChannelUpload
    \/ ChannelDownload
SpecChannel == InitChannel /\ [][NextChannel]_vars

\* One AnsibleManager on its own: any caller, any order of its methods; a
\* working copy may be left from an earlier run.
InitAnsible ==
    /\ master_count \in 1 .. MaxMasters
    /\ worker_count \in 0 .. MaxWorkers
    /\ vm_base_config \in { c \in VmBaseConfigs :
                              /\ c.create_admin_user
                              /\ c.admin_credential
                              /\ c.admin_username # None }
    /\ start_on_create = TRUE
    /\ ip_address = [ m \in all_vms |-> "pending" ]
    /\ has_agent = [ m \in all_vms |-> FALSE ]
    /\ power_result = NoPowerCall
    /\ cur = 1
    /\ ppc = "idle"
    /\ InitLocals
    /\ provisioned = [ m \in all_vms |-> "none" ]
    /\ bootstrap_calls = NoBootstrap
    /\ playbook_retry = 0
    /\ agent_cmds_ok = [ m \in all_vms |-> FALSE ]
    /\ dropped_channels = {}
    /\ chan_call = NoChanCall
    /\ repo \in {"absent", "present"}
    /\ hosts_ini = << >>
    /\ all_yml = << >>
    /\ ans_call = NoAnsCall
    /\ InitDeclared
    /\ InitGuest
    /\ pc = "ansible"
NextAnsible ==
    \/ CallGenerateInventory
    \/ CallCloneRepository
    \/ CallRunPlaybook
SpecAnsible == InitAnsible /\ [][NextAnsible]_vars

\* calculate_ip_addresses on its own, for every fleet and the networks and
\* offsets drawn.
InitAddresses == InitFleet /\ InitLib /\ pc = "addresses"
NextAddresses == CallCalculateIpAddresses
SpecAddresses == InitAddresses /\ [][NextAddresses]_vars

\* The module-level code from the vm_ids computation (__main__.py:142) to the
\* exports (640), with the hypervisor creating the machines declared.
InitDeclare ==
    /\ master_count \in 1 .. MaxMasters + 1
    /\ worker_count \in 0 .. MaxWorkers + 1
    /\ vm_base_config \in { c \in VmBaseConfigs :
                              /\ c.create_admin_user
                              /\ c.admin_credential
                              /\ c.admin_username # None }
    /\ start_on_create = TRUE
    /\ ip_address = [ m \in all_vms |-> "pending" ]
    /\ has_agent = [ m \in all_vms |-> FALSE ]
    /\ power_result = NoPowerCall
    /\ cur = 1
    /\ ppc = "idle"
    /\ InitLocals
    /\ provisioned = [ m \in all_vms |-> "none" ]
    /\ bootstrap_calls = NoBootstrap
    /\ playbook_retry = 0
    /\ agent_cmds_ok = [ m \in all_vms |-> FALSE ]
    /\ dropped_channels = {}
    /\ chan_call = NoChanCall
    /\ repo = "absent"
    /\ hosts_ini = << >>
    /\ all_yml = << >>
    /\ ans_call = NoAnsCall
    /\ vm_id_range \in IdRanges
    /\ vm_ids = VmIds(vm_id_range, NumVms)
    /\ master_vms = << >>
    /\ worker_vms = << >>
    /\ last_vm = 0
    /\ decl_pc = "masters"
    /\ decl_i = 0
    /\ create_failed = {}
    /\ exports = NoExports
    /\ creation = [ p \in all_vms |-> "undeclared" ]
    /\ InitGuest
    /\ pc = "declare"
NextDeclare ==
    \/ DeclareMaster
    \/ DeclareWorker
    \/ ExportOutputs
    \/ \E p \in all_vms : BeginCreate(p)
    \/ \E p \in all_vms : EndCreate(p)
SpecDeclare == InitDeclare /\ [][NextDeclare]_vars

\* The provisioning loop of provision_vm on one machine fresh from the
\* template, the channel connected.
InitProvisioner == InitFleet /\ InitLib /\ pc = "guest"
NextProvisioner == GuestProvisionAttempt
SpecProvisioner == InitProvisioner /\ [][NextProvisioner]_vars

\* _configure_swap called again and again on one machine fresh from the
\* template.
InitSwap == InitFleet /\ InitLib /\ pc = "swap"
NextSwap == CallConfigureSwap
SpecSwap == InitSwap /\ [][NextSwap]_vars

\* ------------------------------------------------------------- claims
BootstrapInvoked == \E st \in DOMAIN bootstrap_calls : bootstrap_calls[st] > 0
ProvisionFailed(m) == provisioned[m] \in {"False_connect", "False_provision"}
Terminal ==
    pc \in {"not_all_ips", "prov_failed", "raised", "clone_failed",
            "inventory_failed", "playbook_failed", "done"}

\* C1: clone_repository, generate_inventory and run_playbook are invoked only
\* after provision_vm returned True for every master and every worker; once a
\* provision_vm call returned False no later machine is provisioned and no
\* bootstrap step is invoked in that run.
C1_BootstrapNeverPartial ==
    /\ BootstrapInvoked => \A m \in all_vms : provisioned[m] = "True"
    /\ \A m \in all_vms :
         ProvisionFailed(m) =>
            /\ \A k \in all_vms : k > m => provisioned[k] = "none"
            /\ ~BootstrapInvoked
            /\ ppc = "idle"
C1_Witness ==
    \E m \in all_vms :
       /\ 1 < m /\ m < NumVms
       /\ provisioned[m] = "False_provision"
       /\ provisioned[1] = "True"
       /\ pc = "prov_failed"

\* C2: no provisioning action (connect attempt, power operation, remote
\* command, bootstrap step) is issued while some declared machine's address is
\* unresolved or empty.
ProvisioningActed ==
    \/ power_result.via # None
    \/ \E m \in all_vms : provisioned[m] # "none"
    \/ ppc # "idle"
    \/ connect_log # << >>
    \/ BootstrapInvoked
C2_NoActionBeforeAllAddresses ==
    ProvisioningActed => \A m \in all_vms : ip_address[m] = "ip"
C2_Witness ==
    /\ worker_count > 0
    /\ connect_log # << >>
    /\ power_result.via = "ensure_running"

\* C3: when the join callback ran with some address empty, no provisioning
\* ever starts; and once every declared machine has reported a non-empty
\* address, provisioning of the first master eventually begins.
AllResolvedNonEmpty == \A m \in all_vms : ip_address[m] = "ip"
ProvisioningBegun == provisioned[1] # "none"
C4_LaterMachinesStillProvisioned ==
    \A m \in all_vms :
       (Terminal /\ provisioned[m] = "False_connect") =>
          \A k \in all_vms : k > m => provisioned[k] # "none"
\* C4 as amended: exhausted connection attempts are reported as the return
\* value False, and on_ips_available then returns: the machines before it
\* were provisioned, no machine declared after it is connected to or
\* provisioned and no bootstrap step is invoked.
C4_ExhaustionEndsTheRun ==
    \A m \in all_vms :
       provisioned[m] = "False_connect" =>
          /\ pc = "prov_failed"
          /\ cur = m
          /\ \A k \in all_vms : k < m => provisioned[k] = "True"
          /\ \A k \in all_vms : k > m => provisioned[k] = "none"
          /\ bootstrap_calls = NoBootstrap
C4_Witness ==
    \E m \in all_vms : m < NumVms /\ provisioned[m] = "False_connect"

\* C5: with a secondary identity configured, when every connect() of the
\* primary identity reports failure (returns False), the secondary identity
\* has been tried by the time the attempts are exhausted.
ConnectExhausted ==
    ppc = "connect" /\ ~connected /\ ~ConnectLoopContinues(retry_count, connected)
C5_SecondaryTriedBeforeFailure ==
    (/\ ConnectExhausted
     /\ vm_base_config.create_admin_user
     /\ vm_base_config.admin_username # None
     /\ ~connect_raised)
       => \E i \in 1 .. Len(connect_log) : connect_log[i] = vm_base_config.admin_username

\* C6: the first four connection attempts of provision_vm use the primary
\* identity: no switch is made before the fourth attempt has failed.
C6_FirstFourPrimary ==
    /\ \A i \in 1 .. Len(connect_log) :
          i <= SwitchThreshold + 1 => connect_log[i] = DefaultUser
    /\ (ppc = "connect" /\ Len(connect_log) <= SwitchThreshold) =>
          (~tried_admin_user /\ ssh_client.username = DefaultUser)
C6_Witness ==
    /\ Len(connect_log) = SwitchThreshold + 2
    /\ connect_log[SwitchThreshold + 1] = DefaultUser
    /\ connect_log[SwitchThreshold + 2] = "admin"

\* C7: the iteration that switches identities leaves retry_count unchanged,
\* and a provision_vm call switches at most once.
C7_SwitchNotCounted ==
    /\ [][ (tried_admin_user' /\ ~tried_admin_user) => retry_count' = retry_count ]_vars
    /\ [][ (ppc = "connect" /\ ppc' = "connect"
            /\ ssh_client'.username # ssh_client.username) =>
              (~tried_admin_user /\ tried_admin_user' /\ switch_count = 0) ]_vars
    /\ [](switch_count <= 1)
C7_Witness ==
    /\ ppc = "connect"
    /\ switch_count = 1
    /\ ssh_client.username = "admin"
    /\ retry_count > SwitchThreshold

\* C8: the first connection attempt for a machine uses the primary identity,
\* and without a requested administrative user (create_admin_user false or no
\* admin_username) every attempt does.
AdminRequested ==
    vm_base_config.create_admin_user /\ vm_base_config.admin_username # None
C8_PrimaryFirst ==
    /\ connect_log # << >> => connect_log[1] = DefaultUser
    /\ ~AdminRequested =>
          /\ \A i \in 1 .. Len(connect_log) : connect_log[i] = DefaultUser
          /\ ssh_client.username \in {DefaultUser, None}
          /\ ~tried_admin_user
C8_Witness ==
    /\ ~vm_base_config.create_admin_user
    /\ vm_base_config.admin_username = "admin"
    /\ connect_raised
    /\ Len(connect_log) = max_retries
    /\ connect_log[max_retries] = DefaultUser

\* C9 as stated: SSHClient.connect is called at most max_retries times in a
\* provision_vm call.
C9_AtMostMaxRetriesConnects == Len(connect_log) <= max_retries
\* C9 as amended: the connection loop always ends, after at most
\* max_retries + 1 connect calls: max_retries counted ones and the uncounted
\* one on which the identity is switched (at most max_retries without switch).
C9_LoopEndsWithinBound ==
    /\ [](/\ retry_count <= max_retries
          /\ Len(connect_log) <= max_retries + 1
          /\ switch_count = 0 => Len(connect_log) <= max_retries)
    /\ ((ppc = "connect") ~> (ppc # "connect"))
C9_Witness ==
    /\ ConnectExhausted
    /\ Len(connect_log) = max_retries + 1

\* C10: while the guest-agent flag is false, power_operation(shutdown) yields
\* what power_operation(stop) yields and power_operation(reboot) what
\* power_operation(reset) yields, never shutdown or reboot; with the flag true
\* and the machine running, shutdown and reboot pass through unchanged.
C10_GracefulOnlyWithAgent ==
    /\ \A m \in all_vms, s \in VmStates :
          IF ~has_agent[m]
          THEN /\ PowerOperation(has_agent[m], s, "shutdown")
                    = PowerOperation(has_agent[m], s, "stop")
               /\ PowerOperation(has_agent[m], s, "reboot")
                    = PowerOperation(has_agent[m], s, "reset")
               /\ \A op \in VMPowerOp :
                     PowerOperation(has_agent[m], s, op) \notin {"shutdown", "reboot"}
          ELSE /\ PowerOperation(has_agent[m], "running", "shutdown") = "shutdown"
               /\ PowerOperation(has_agent[m], "running", "reboot") = "reboot"
    /\ (power_result.via # None /\ ~power_result.has_agent) =>
          /\ power_result.verb \notin {"shutdown", "reboot"}
          /\ power_result.op = "shutdown" =>
                power_result.verb = (IF power_result.vm_state = "running"
                                     THEN "stop" ELSE None)
          /\ power_result.op = "reboot" =>
                power_result.verb = (IF power_result.vm_state = "running"
                                     THEN "reset" ELSE "start")
    /\ (/\ power_result.via # None /\ power_result.has_agent
        /\ power_result.vm_state = "running"
        /\ power_result.op \in {"shutdown", "reboot"}) =>
          power_result.verb = power_result.op
C10_Witness ==
    /\ power_result.via = "power_operation"
    /\ ~power_result.has_agent
    /\ power_result.vm_state = "running"
    /\ power_result.op = "shutdown"
    /\ power_result.verb = "stop"
    /\ \E m \in all_vms : has_agent[m]

\* C11: power_operation is state-aware whatever the flag: start yields no
\* submission on a running machine and start otherwise; stop yields no
\* submission on a machine that is not running; reset and reboot yield start on
\* a machine that is not running; so a machine that is not running is never
\* sent stop, shutdown, reset or reboot.
C11_StateAware ==
    /\ \A agent \in BOOLEAN, s \in VmStates :
          /\ PowerOperation(agent, s, "start")
                = (IF s = "running" THEN None ELSE "start")
          /\ s # "running" =>
                /\ PowerOperation(agent, s, "stop") = None
                /\ PowerOperation(agent, s, "reset") = "start"
                /\ PowerOperation(agent, s, "reboot") = "start"
                /\ \A op \in VMPowerOp :
                      PowerOperation(agent, s, op) \in {None, "start"}
    /\ (power_result.via # None /\ power_result.vm_state # "running") =>
          power_result.verb \notin {"stop", "shutdown", "reset", "reboot"}
    /\ (power_result.via # None /\ power_result.op = "start") =>
          power_result.verb = (IF power_result.vm_state = "running"
                               THEN None ELSE "start")
C11_Witness ==
    /\ power_result.via = "power_operation"
    /\ power_result.has_agent
    /\ power_result.op = "reboot"
    /\ power_result.vm_state = "stopped"
    /\ power_result.verb = "start"

\* C12: stop() yields the verb power_operation(shutdown) yields and restart()
\* the verb power_operation(reboot) yields, for both flag values and every
\* run state: on a running machine stop/reset without the agent and
\* shutdown/reboot with it.
C12_WrappersAgree ==
    /\ \A agent \in BOOLEAN, s \in VmStates :
          /\ PowerOperation(agent, s, StopOp(agent))
                = PowerOperation(agent, s, "shutdown")
          /\ PowerOperation(agent, s, RestartOp(agent))
                = PowerOperation(agent, s, "reboot")
    /\ power_result.via = "stop" =>
          /\ power_result.verb = PowerOperation(power_result.has_agent,
                                                power_result.vm_state, "shutdown")
          /\ power_result.vm_state = "running" =>
                power_result.verb = (IF power_result.has_agent
                                     THEN "shutdown" ELSE "stop")
    /\ power_result.via = "restart" =>
          /\ power_result.verb = PowerOperation(power_result.has_agent,
                                                power_result.vm_state, "reboot")
          /\ power_result.vm_state = "running" =>
                power_result.verb = (IF power_result.has_agent
                                     THEN "reboot" ELSE "reset")
C12_Witness ==
    /\ power_result.via = "stop"
    /\ power_result.has_agent
    /\ power_result.vm_state = "running"
    /\ power_result.verb = "shutdown"

\* C13: a machine's guest-agent flag is false when the handle is created, and
\* in an orchestration run it is true only if some provisioning attempt on that
\* machine got exit code 0 from the agent's install, enable and start commands
\* after the package update, the baseline install and the admin-user step (when
\* there is one) of that attempt succeeded.
C13_FlagOnlyAfterAgentStep ==
    /\ (\A m \in all_vms : provisioned[m] = "none") =>
          \A m \in all_vms : ~has_agent[m]
    /\ \A m \in all_vms : has_agent[m] => agent_cmds_ok[m]
    /\ \A m \in all_vms : has_agent[m] => provisioned[m] \in {"running", "True", "False_provision"}
C13_Witness ==
    \E m, k \in all_vms :
       /\ has_agent[m]
       /\ provisioned[m] = "True"
       /\ ~has_agent[k]
       /\ provisioned[k] = "False_provision"

\* C14: once a machine's guest-agent flag is true nothing makes it false
\* again: no call of set_agent_installed, whatever its argument, and no later
\* provisioning attempt.
C14_FlagOneWay ==
    [][ \A m \in all_vms : has_agent[m] => has_agent'[m] ]_vars

\* C15: in provision(), a nonzero exit code of a command of any of the eight
\* steps makes provision return failure, and no command of a later step is
\* issued in that attempt.
C15_AnyNonzeroAborts ==
    \A i \in 1 .. Len(ProvisionSteps) :
       (/\ last_attempt.made
        /\ ProvisionSteps[i] \in last_attempt.issued
        /\ last_attempt.ex[ProvisionSteps[i]] # 0)
         => /\ ~last_attempt.ok
            /\ \A j \in 1 .. Len(ProvisionSteps) :
                  j > i => ProvisionSteps[j] \notin last_attempt.issued

\* C16: with an administrative username but neither a password nor a public
\* key, provision returns failure without issuing any command of the
\* admin-user step, of the guest-agent step or of a later step.
AfterEssentials ==
    ProvisionStepSet \ {"update_packages", "install_essentials"}
C16_AdminUserFailsFast ==
    /\ \A ex \in ExitCodeInputs :
          LET r == Provision(ex, "admin", FALSE)
          IN  ~r.ok /\ r.issued \cap AfterEssentials = {} /\ ~r.agent
    /\ (/\ last_attempt.made
        /\ ProvisionAdminUsername(vm_base_config) # None
        /\ ~vm_base_config.admin_credential)
         => /\ ~last_attempt.ok
            /\ ~success
            /\ last_attempt.issued \cap AfterEssentials = {}
            /\ ~has_agent[cur]
C16_Witness ==
    /\ last_attempt.made
    /\ ProvisionAdminUsername(vm_base_config) = "admin"
    /\ ~vm_base_config.admin_credential
    /\ last_attempt.issued = {"update_packages", "install_essentials"}
    /\ Len(provision_log) = max_provisioning_retries

\* C17: for a machine whose channel connected, provision is invoked at least
\* once and at most max_provisioning_retries (3) times, never again after an
\* invocation returned success, every invocation starts at the package-index
\* update, the loop always ends, and provision_vm returns True exactly when
\* some invocation returned success.
C17_OuterRetry ==
    /\ [](/\ Len(provision_log) <= max_provisioning_retries
          /\ \A i \in 1 .. Len(provision_log) :
                provision_log[i].ok => i = Len(provision_log)
          /\ last_attempt.made => "update_packages" \in last_attempt.issued)
    /\ [][ (ppc = "provision" /\ ppc' = "idle") =>
             /\ Len(provision_log) >= 1
             /\ (provisioned'[cur] = "True")
                   <=> (\E i \in 1 .. Len(provision_log) : provision_log[i].ok)
             /\ provisioned'[cur] \in {"True", "False_provision"} ]_vars
    /\ ((ppc = "provision") ~> (ppc = "idle"))
C17_Witness ==
    /\ ppc = "provision"
    /\ Len(provision_log) = max_provisioning_retries
    /\ provision_log[max_provisioning_retries].ok
    /\ ~provision_log[1].ok

\* C18: no two invocations of provision in the outer retry on a machine run
\* over the same channel connection.
C18_FreshChannelPerAttempt ==
    \A i, j \in 1 .. Len(provision_log) :
       i # j => provision_log[i].channel # provision_log[j].channel

\* C19: whenever provision_vm has returned or raised, every channel it
\* constructed has been disconnected (its client handle cleared).
C19_EveryChannelReleased ==
    ppc = "idle" => \A c \in dropped_channels : c.client = None

\* C20: at most one channel is connected at any moment, across the fleet and
\* both identities: a channel provision_vm has let go of (at an identity
\* switch, or when it returned before the next machine) is not connected, so
\* only the channel it holds can be.
ConnectedChannels == { c \in dropped_channels : c.client = "connected" }
C20_AtMostOneConnected ==
    /\ Cardinality(ConnectedChannels)
         + (IF ppc # "idle" /\ ssh_client.client = "connected" THEN 1 ELSE 0) <= 1
    /\ (ppc = "connect" /\ ssh_client.client = None) => ConnectedChannels = {}
    /\ ppc = "idle" => ConnectedChannels = {}
C20_Witness ==
    /\ cur = 2
    /\ ppc = "provision"
    /\ ssh_client.client = "connected"
    /\ ssh_client.username = "admin"
    /\ \E c, d \in dropped_channels : c.vm = 1 /\ d.vm = 2

\* C21: connect(retry_attempts) makes its attempts one after another up to
\* the first that succeeds, at most retry_attempts of them, returns True
\* exactly when an attempt succeeded, and returns False instead of raising
\* when every attempt fails.
C21_ConnectReturnsFalse ==
    (chan_call.call = "connect" /\ chan_call.setup = "ok") =>
       /\ chan_call.out \in {"True", "False"}
       /\ chan_call.attempts <= chan_call.retry_attempts
       /\ \A i \in 1 .. chan_call.attempts - 1 : ~chan_call.attempt_ok[i]
       /\ (chan_call.out = "True") <=>
             (\E i \in 1 .. chan_call.retry_attempts : chan_call.attempt_ok[i])
       /\ chan_call.out = "True" =>
             /\ chan_call.attempt_ok[chan_call.attempts]
             /\ ssh_client.client = "connected"
       /\ chan_call.out = "False" =>
             /\ chan_call.attempts = chan_call.retry_attempts
             /\ ssh_client.client # "connected"
C21_Witness ==
    /\ chan_call.call = "connect"
    /\ chan_call.setup = "ok"
    /\ chan_call.retry_attempts = MaxAttempts
    /\ \A i \in 1 .. MaxAttempts : ~chan_call.attempt_ok[i]
    /\ chan_call.out = "False"
    /\ chan_call.before = "connected"

\* C22: on a connected channel execute_command never raises; a transport
\* failure comes back as exit code -1 with the error text in the stderr slot
\* and empty stdout, and the remote command's own exit code comes back
\* unchanged.
C22_ExitCodeVerbatim ==
    (chan_call.call = "execute_command" /\ chan_call.before = "connected") =>
       /\ ~chan_call.result.raised
       /\ ~chan_call.env.transport_ok =>
             /\ chan_call.result.exit_code = -1
             /\ chan_call.result.stdout = ""
             /\ chan_call.result.stderr = "str(e)"
       /\ chan_call.env.transport_ok =>
             chan_call.result.exit_code = chan_call.env.exit_code

\* C23: execute_command, upload_file and download_file raise to the caller
\* whenever no connect has succeeded since the last disconnect (never
\* connected, every attempt failed, or disconnected).
C23_FailFastUnconnected ==
    (/\ chan_call.call \in {"execute_command", "upload_file", "download_file"}
     /\ chan_call.before # "connected")
       => IF chan_call.call = "execute_command"
          THEN chan_call.result.raised
          ELSE chan_call.result = "raise"

\* C24 as stated: for a well-formed network calculate_ip_addresses returns
\* masterCount + workerCount pairwise distinct consecutive addresses from
\* network address + startOffset on, the masters' first, then the workers'.
AddressesInOrder(c) ==
    /\ Len(c.result.master_ips) = c.num_masters
    /\ Len(c.result.worker_ips) = c.num_workers
    /\ \A k \in 1 .. c.num_masters :
          c.result.master_ips[k]
             = Dotted(c.network.address + c.start_ip_offset + k - 1)
    /\ \A k \in 1 .. c.num_workers :
          c.result.worker_ips[k]
             = Dotted(c.network.address + c.start_ip_offset + c.num_masters + k - 1)
    /\ LET all_ips == c.result.master_ips \o c.result.worker_ips
       IN  \A i, j \in 1 .. Len(all_ips) : i # j => all_ips[i] # all_ips[j]
AllInRange(c) ==
    \A i \in 1 .. c.num_masters + c.num_workers :
       c.network.address + c.start_ip_offset + (i - 1) \in 0 .. MaxAddress
C24_ConsecutiveForWellFormed ==
    (ans_call.call = "calculate_ip_addresses" /\ ans_call.network.valid)
       => AddressesInOrder(ans_call)
\* C24 as amended: the same, for a well-formed network whose addresses
\* network address + startOffset + i all lie in the address range; when one
\* does not, the result is two empty lists.
C24_ConsecutiveWithinRange ==
    (ans_call.call = "calculate_ip_addresses" /\ ans_call.network.valid) =>
       IF AllInRange(ans_call) THEN AddressesInOrder(ans_call)
                               ELSE ans_call.result = NoIps
C24_Witness ==
    /\ ans_call.call = "calculate_ip_addresses"
    /\ ans_call.network.valid
    /\ ans_call.network.address > 0
    /\ ans_call.num_masters = MaxMasters
    /\ ans_call.num_workers = MaxWorkers
    /\ ans_call.start_ip_offset > 0
    /\ Len(ans_call.result.worker_ips) = MaxWorkers

\* C25: calculate_ip_addresses never raises: for a malformed network, or when
\* an offset takes an address out of the address range, it returns two empty
\* lists, and it never returns a partly filled result.
C25_EmptyOnFailure ==
    ans_call.call = "calculate_ip_addresses" =>
       /\ (~ans_call.network.valid \/ ~AllInRange(ans_call))
             => ans_call.result = NoIps
       /\ \/ ans_call.result = NoIps
          \/ /\ Len(ans_call.result.master_ips) = ans_call.num_masters
             /\ Len(ans_call.result.worker_ips) = ans_call.num_workers
C25_Witness ==
    /\ ans_call.call = "calculate_ip_addresses"
    /\ ans_call.network.valid
    /\ AllInRange([ ans_call EXCEPT !.num_workers = 0, !.num_masters = 1 ])
    /\ ~AllInRange(ans_call)
    /\ ans_call.result = NoIps

\* the address lines under a group header of hosts.ini, up to the blank line
GroupOf(file, header) ==
    LET h == CHOOSE i \in 1 .. Len(file) : file[i] = Text(header)
        e == CHOOSE i \in h + 1 .. Len(file) :
                /\ file[i] = Text("")
                /\ \A j \in h + 1 .. i - 1 : file[j] # Text("")
    IN  [ i \in 1 .. e - h - 1 |-> file[h + i].addr ]
HostsWritten ==
    ans_call.call = "generate_inventory" /\ ans_call.result # "False"
\* C26: the hosts file depends on the ordered master and worker address lists
\* only: the master group and the worker group hold the supplied addresses in
\* the supplied order, each machine (machines have distinct addresses) is on
\* exactly one line of the file, and generating again from the same lists,
\* whatever the other inputs, leaves the file as it was.
C26_HostsFileFromListsOnly ==
    /\ [](HostsWritten =>
            /\ GroupOf(hosts_ini, "[master]") = ans_call.master_ips
            /\ GroupOf(hosts_ini, "[node]") = ans_call.worker_ips
            /\ \A k \in 1 .. Len(ans_call.master_ips \o ans_call.worker_ips) :
                 Cardinality({ i \in 1 .. Len(hosts_ini) :
                                 hosts_ini[i].addr
                                    = (ans_call.master_ips \o ans_call.worker_ips)[k] })
                    = 1)
    /\ [][(/\ HostsWritten
           /\ HostsWritten'
           /\ ans_call'.master_ips = ans_call.master_ips
           /\ ans_call'.worker_ips = ans_call.worker_ips)
             => hosts_ini' = hosts_ini]_vars
C26_Witness ==
    /\ HostsWritten
    /\ Len(ans_call.master_ips) = MaxMasters
    /\ Len(ans_call.worker_ips) = MaxWorkers
    /\ ans_call.master_ips[1] # Dotted(1)
    /\ GroupOf(hosts_ini, "[master]") = ans_call.master_ips

\* the value of a key in all.yml
ValueOf(file, k) == (file[CHOOSE i \in 1 .. Len(file) : file[i].key = k]).value
\* C27: in the settings document the caller's extra settings win on every
\* collision, and the API endpoint is the first master's address unless the
\* caller supplies apiserver_endpoint, in which case every derived setting,
\* the TLS SAN in the server arguments included, uses the caller's value.
C27_OverrideReachesDerivedSettings ==
    (ans_call.call = "generate_inventory" /\ ans_call.result = "True") =>
       LET extra == ans_call.extra_vars.vars
           endpoint == Get(extra, "apiserver_endpoint",
                           Addr(ans_call.master_ips[1]))
       IN  /\ \A k \in DOMAIN extra : ValueOf(all_yml, k) = extra[k]
           /\ ValueOf(all_yml, "apiserver_endpoint") = endpoint
           /\ ValueOf(all_yml, "extra_server_args").addr = endpoint.addr

\* C28: clone_repository never leaves or reuses a corrupt working copy: after
\* a failed pull, and when caching is disabled, the existing copy is gone
\* before the fresh clone; a fresh clone is never attempted while the old copy
\* is there; and True is returned only if the pull or the clone succeeded.
C28_NoCloneOntoOldCopy ==
    ans_call.call = "clone_repository" =>
       /\ ans_call.cloned_onto # "present"
       /\ ans_call.result = "True" =>
             \/ ans_call.cloned_onto = None /\ ans_call.env.pull = "exit0"
             \/ ans_call.cloned_onto = "absent" /\ ans_call.env.clone = "exit0"

\* C29: run_playbook never raises: a nonzero exit of the tool and a failure
\* to invoke it both give False, and True is returned only on exit 0.
C29_RunPlaybookNeverRaises ==
    ans_call.call = "run_playbook" =>
       /\ ans_call.result \in {"True", "False"}
       /\ ans_call.result = "True" => ans_call.tool = "exit0"
       /\ ans_call.tool # "exit0" => ans_call.result = "False"

\* C30: in one orchestration run clone_repository is called at most once and
\* generate_inventory at most once, both before the first run_playbook call;
\* once the playbook loop is entered run_playbook is called at least once and
\* at most 3 times, never again after a call returned True, and the loop ends.
\* (An invocation of the tool is read as a call of run_playbook.)
C30_BootstrapOrderAndBound ==
    /\ [](/\ bootstrap_calls["clone"] <= 1
          /\ bootstrap_calls["inventory"] <= 1
          /\ bootstrap_calls["playbook"] <= 3
          /\ bootstrap_calls["inventory"] > 0 => bootstrap_calls["clone"] = 1
          /\ bootstrap_calls["playbook"] > 0 => bootstrap_calls["inventory"] = 1
          /\ pc \in {"done", "playbook_failed"} => bootstrap_calls["playbook"] >= 1)
    /\ [][pc = "done" => bootstrap_calls' = bootstrap_calls]_vars
    /\ [][bootstrap_calls'["playbook"] > bootstrap_calls["playbook"]
            => (bootstrap_calls'["clone"] = bootstrap_calls["clone"]
                /\ bootstrap_calls'["inventory"] = bootstrap_calls["inventory"])]_vars
    /\ (pc = "playbook" ~> pc \in {"done", "playbook_failed"})
C30_Witness ==
    /\ pc = "done"
    /\ bootstrap_calls["clone"] = 1
    /\ bootstrap_calls["inventory"] = 1
    /\ bootstrap_calls["playbook"] = max_playbook_retries

\* C36: no exception escapes provision_vm: every failure, while the channel
\* is constructed, while connecting and while provisioning, reaches the fleet
\* driver as the return value False.
C36_NoExceptionEscapes ==
    /\ pc # "raised"
    /\ \A m \in all_vms : provisioned[m] # "raised"

\* C39: generate_inventory returns True or False for every input and never
\* raises; without the working copy it writes nothing, and with extra_vars
\* omitted (None) it leaves no hosts file without its settings document.
C39_InventoryNeverRaises ==
    /\ ans_call.call = "generate_inventory" => ans_call.result \in {"True", "False"}
    /\ hosts_ini # << >> => all_yml # << >>

\* the machine declared just before DeclaredVms[k], as its dependencies
ChainedOnPrevious ==
    \A k \in DOMAIN DeclaredVms :
       DeclaredVms[k].deps = IF k = 1 THEN {} ELSE { DeclaredVms[k - 1].pos }
\* C31: machine creation is strictly sequential: the masters are declared
\* before any worker, every machine but the first is declared with a
\* dependency on exactly the machine declared just before it, and with the
\* hypervisor honouring dependencies no two creations are in progress at once.
C31_CreationSequential ==
    /\ [](/\ ChainedOnPrevious
          /\ \A j, k \in DOMAIN DeclaredVms : j < k => DeclaredVms[j].pos < DeclaredVms[k].pos
          /\ Cardinality({ p \in all_vms : creation[p] = "creating" }) <= 1)
    /\ [][worker_vms # << >> => master_vms' = master_vms]_vars
C31_Witness ==
    /\ Len(master_vms) >= 2
    /\ Len(worker_vms) >= 1
    /\ \E p \in all_vms :
         /\ creation[p] = "creating"
         /\ p > 1
         /\ \E q \in all_vms : q > p /\ creation[q] = "pending"

\* C32: a failure creating the very first machine is raised at once and no
\* further machine is declared; a failure creating a later master or a worker
\* is skipped, every remaining machine is still declared, and each is chained
\* on the machine created last before it.
C32_OnlyFirstFailureFatal ==
    /\ 1 \in create_failed
          => (decl_pc = "raised" /\ DeclaredVms = << >> /\ exports = NoExports)
    /\ decl_pc = "raised" => create_failed = {1}
    /\ decl_pc = "exported"
          => { DeclaredVms[k].pos : k \in DOMAIN DeclaredVms } = all_vms \ create_failed
    /\ \A k \in DOMAIN DeclaredVms :
          DeclaredVms[k].deps
             = { p \in all_vms :
                   /\ p < DeclaredVms[k].pos
                   /\ p \notin create_failed
                   /\ \A q \in p + 1 .. DeclaredVms[k].pos - 1 : q \in create_failed }
C32_Witness ==
    /\ decl_pc = "exported"
    /\ \E k \in DOMAIN DeclaredVms :
         /\ DeclaredVms[k].pos - 1 \in create_failed
         /\ DeclaredVms[k].deps = { DeclaredVms[k].pos - 2 }

\* C33: for every machine declared, its platform ID, its logical name and
\* its address are among the exported outputs, however far provisioning and
\* bootstrap got.
C33_DeclaredMachinesExported ==
    decl_pc = "exported" =>
       \A k \in DOMAIN DeclaredVms :
          \E e \in { exports.masters[j] : j \in DOMAIN exports.masters }
                    \cup { exports.workers[j] : j \in DOMAIN exports.workers } :
             /\ e.id_of = DeclaredVms[k].pos
             /\ e.ip_of = DeclaredVms[k].pos
             /\ e.name = DeclaredVms[k].name

\* C37: the name a machine is provisioned under, listed under in the
\* inventory and exported under is the name it was declared with, also when
\* an earlier machine of its role was skipped.
C37_NameIsDeclaredName ==
    decl_pc = "exported" =>
       /\ \A k \in DOMAIN master_vms :
             /\ ProvisionedAs(MasterPrefix, k - 1) = master_vms[k].name
             /\ ListedAs(MasterPrefix, k - 1) = master_vms[k].name
             /\ exports.masters[k].name = master_vms[k].name
       /\ \A k \in DOMAIN worker_vms :
             /\ ProvisionedAs(WorkerPrefix, k - 1) = worker_vms[k].name
             /\ ListedAs(WorkerPrefix, k - 1) = worker_vms[k].name
             /\ exports.workers[k].name = worker_vms[k].name

\* C40: with a platform-ID range supplied, the machine at fleet position p
\* (masters first, counted from 0) gets vm_id_min + p when that is at most
\* vm_id_max and is left to the hypervisor otherwise; the IDs assigned are
\* pairwise distinct, inside the range, and no master shares one with a worker.
C40_IdsFromRange ==
    vm_id_range.given =>
       /\ \A k \in DOMAIN DeclaredVms :
             DeclaredVms[k].vm_id
                = IF vm_id_range.min + (DeclaredVms[k].pos - 1) <= vm_id_range.max
                  THEN vm_id_range.min + (DeclaredVms[k].pos - 1)
                  ELSE AutoId
       /\ \A j, k \in DOMAIN DeclaredVms :
             (j # k /\ DeclaredVms[j].vm_id # AutoId)
                => DeclaredVms[j].vm_id # DeclaredVms[k].vm_id
       /\ \A k \in DOMAIN DeclaredVms :
             DeclaredVms[k].vm_id # AutoId
                => DeclaredVms[k].vm_id \in vm_id_range.min .. vm_id_range.max
       /\ \A j \in DOMAIN master_vms, k \in DOMAIN worker_vms :
             master_vms[j].vm_id # AutoId => master_vms[j].vm_id # worker_vms[k].vm_id
C40_Witness ==
    /\ vm_id_range.given
    /\ \E j \in DOMAIN master_vms : master_vms[j].vm_id # AutoId
    /\ \E j, k \in DOMAIN worker_vms :
         worker_vms[j].vm_id # AutoId /\ worker_vms[k].vm_id = AutoId

\* C34: swap configuration is idempotent: after _configure_swap has run twice
\* in sequence on a machine there is exactly one swap file, one mount entry
\* and one swappiness setting, and the second run issued no mutating command.
C34_SwapIdempotent ==
    Len(guest_log) >= 2 =>
       /\ guest_log[2].mutating = {}
       /\ guest.swapfiles = 1
       /\ guest.fstab_entries = 1
       /\ guest.swappiness_entries = 1

\* C35: in no provisioning attempt is firewall enforcement enabled unless the
\* rule allowing the remote-shell port was added with exit code 0 before.
C35_EnableOnlyAfterAllow ==
    \A k \in DOMAIN guest_log :
       guest_log[k].enable_issued =>
          (guest_log[k].allow_ssh_exit = 0 /\ guest_log[k].guest.ssh_allowed)

\* C38: provisioning can be retried after a late failure: an attempt that
\* follows one which created the administrative user and then failed at the
\* guest-agent step, and in which no command fails for a reason of its own,
\* returns success.
C38_RetryAfterLateFailure ==
    \A j, k \in DOMAIN guest_log :
       (/\ j < k
        /\ guest_log[j].created_user
        /\ guest_log[j].failed_at = "install_qemu_agent"
        /\ guest_log[k].fault = "none")
          => guest_log[k].ok

====
